---------------------------- MODULE Spec2Model ----------------------------
(***************************************************************************)
(* A model of the OmniCapture NVENC session (FNVENCSession) and of the     *)
(* identifier/version utilities it uses (FNVENCDefs).                      *)
(*                                                                         *)
(* The session is one mutable object driven by one owner; every public     *)
(* method is one atomic action.  The vendor runtime (loader, version       *)
(* export, function table, encoder device) is the environment: each action *)
(* draws the environment's answers from bounded sets.                      *)
(*                                                                         *)
(* A uint32 is kept as its two 16-bit halves [hi, lo], because the model   *)
(* checker's integers are 32-bit signed.                                   *)
(***************************************************************************)
EXTENDS Integers, Sequences, FiniteSets, TLC

(***************************************************************************)
(* Bounds of the model, and the build parameters the vendor header fixes.  *)
(***************************************************************************)
\* Encoder handles the device hands out before it refuses further sessions.
MaxEncoders == 1
\* NVENCAPI_MAJOR_VERSION / NVENCAPI_MINOR_VERSION of the vendor header the
\* plugin is built against (the header is not part of the repository).
NVENCAPI_MAJOR_VERSION == 11
NVENCAPI_MINOR_VERSION == 1

(***************************************************************************)
(* 32-bit words as halves.                                                 *)
(***************************************************************************)
U32(h, l) == [hi |-> h, lo |-> l]
U32Zero == U32(0, 0)

RECURSIVE BitOr(_, _)
\* Bitwise OR of two naturals.
BitOr(a, b) ==
    IF a = 0 THEN b
    ELSE IF b = 0 THEN a
    ELSE (IF (a % 2 = 1) \/ (b % 2 = 1) THEN 1 ELSE 0) + 2 * BitOr(a \div 2, b \div 2)

(***************************************************************************)
(* NVENCSTATUS values, as FNVENCDefs::StatusToString enumerates them.      *)
(***************************************************************************)
NV_ENC_SUCCESS == 0
NV_ENC_ERR_NO_ENCODE_DEVICE == 1
NV_ENC_ERR_INVALID_ENCODERDEVICE == 3
NV_ENC_ERR_INVALID_PTR == 6
NV_ENC_ERR_INVALID_PARAM == 8
NV_ENC_ERR_OUT_OF_MEMORY == 10
NV_ENC_ERR_UNSUPPORTED_PARAM == 12
NV_ENC_ERR_NEED_MORE_INPUT == 24

StatusToString(StatusCode) ==
    CASE StatusCode = 0 -> "NV_ENC_SUCCESS"
      [] StatusCode = 1 -> "NV_ENC_ERR_NO_ENCODE_DEVICE"
      [] StatusCode = 2 -> "NV_ENC_ERR_UNSUPPORTED_DEVICE"
      [] StatusCode = 3 -> "NV_ENC_ERR_INVALID_ENCODERDEVICE"
      [] StatusCode = 4 -> "NV_ENC_ERR_INVALID_DEVICE"
      [] StatusCode = 5 -> "NV_ENC_ERR_DEVICE_NOT_EXIST"
      [] StatusCode = 6 -> "NV_ENC_ERR_INVALID_PTR"
      [] StatusCode = 7 -> "NV_ENC_ERR_INVALID_EVENT"
      [] StatusCode = 8 -> "NV_ENC_ERR_INVALID_PARAM"
      [] StatusCode = 9 -> "NV_ENC_ERR_INVALID_CALL"
      [] StatusCode = 10 -> "NV_ENC_ERR_OUT_OF_MEMORY"
      [] StatusCode = 11 -> "NV_ENC_ERR_ENCODER_NOT_INITIALIZED"
      [] StatusCode = 12 -> "NV_ENC_ERR_UNSUPPORTED_PARAM"
      [] StatusCode = 13 -> "NV_ENC_ERR_LOCK_BUSY"
      [] StatusCode = 14 -> "NV_ENC_ERR_NOT_ENOUGH_BUFFER"
      [] StatusCode = 24 -> "NV_ENC_ERR_NEED_MORE_INPUT"
      [] OTHER -> "NVENC_STATUS_N"

(***************************************************************************)
(* FNVENCDefs: API versions.                                               *)
(***************************************************************************)
FNVENCAPIVersion(major, minor) == [Major |-> major, Minor |-> minor]

GetMinimumAPIVersion == FNVENCAPIVersion(1, 0)

\* (Major & 0xFF) | ((Minor & 0xFF) << 24)
EncodeApiVersion(Version) ==
    U32((Version.Minor % 256) * 256, Version.Major % 256)

\* A decoding that reads the minor version from bits 24..27 alone.
DecodeApiVersion_LowNibble(EncodedVersion) ==
    FNVENCAPIVersion(EncodedVersion.lo % 256, (EncodedVersion.hi \div 256) % 16)

\* Major = Encoded & 0xFF, Minor = (Encoded >> 24) & 0xFF
DecodeApiVersion(EncodedVersion) ==
    FNVENCAPIVersion(EncodedVersion.lo % 256, (EncodedVersion.hi \div 256) % 256)

\* A decoding that tests the low half of the word alone against 0x0FFF.
DecodeRuntimeVersion_LowHalf(RuntimeVersion) ==
    IF RuntimeVersion = U32Zero
    THEN FNVENCAPIVersion(0, 0)
    ELSE IF RuntimeVersion.lo > 4095
    THEN DecodeApiVersion(RuntimeVersion)
    ELSE FNVENCAPIVersion((RuntimeVersion.lo \div 16) % 4096, RuntimeVersion.lo % 16)

\* 0 -> 0.0; above 0x0FFF the modern packing; else the legacy 12-bit packing.
DecodeRuntimeVersion(RuntimeVersion) ==
    IF RuntimeVersion = U32Zero
    THEN FNVENCAPIVersion(0, 0)
    ELSE IF RuntimeVersion.hi > 0 \/ RuntimeVersion.lo > 4095
    THEN DecodeApiVersion(RuntimeVersion)
    ELSE FNVENCAPIVersion((RuntimeVersion.lo \div 16) % 4096, RuntimeVersion.lo % 16)

\* A comparison of the encoded words: the minor version, then the major.
IsVersionOlder_Encoded(Lhs, Rhs) ==
    IF Lhs.Minor # Rhs.Minor
    THEN Lhs.Minor < Rhs.Minor
    ELSE Lhs.Major < Rhs.Major

\* A comparison that looks at the major component alone.
IsVersionOlder_MajorOnly(Lhs, Rhs) == Lhs.Major < Rhs.Major

IsVersionOlder(Lhs, Rhs) ==
    IF Lhs.Major # Rhs.Major
    THEN Lhs.Major < Rhs.Major
    ELSE Lhs.Minor < Rhs.Minor

\* A patch that adds the version's bits to the struct identifier.
PatchStructVersion_Adds(StructVersion, ApiVer) ==
    LET Flags == (StructVersion.hi \div 4096) * 4096
        StructId == StructVersion.hi % 4096
    IN U32((((ApiVer.hi % 4096) + StructId) % 4096) + Flags, ApiVer.lo)

\* Flags = top 4 bits, StructId = bits 16..27, the rest from ApiVersion.
PatchStructVersion(StructVersion, ApiVer) ==
    LET Flags == (StructVersion.hi \div 4096) * 4096
        StructId == StructVersion.hi % 4096
    IN U32(BitOr(BitOr(ApiVer.hi % 4096, StructId), Flags), ApiVer.lo)

\* The header's NVENCAPI_VERSION and its struct-version macro
\* NVENCAPI_STRUCT_VERSION(ver) = NVENCAPI_VERSION | (ver << 16) | (0x7 << 28),
\* with bit 31 set for the structs the header marks so.
NVENCAPI_VERSION ==
    EncodeApiVersion(FNVENCAPIVersion(NVENCAPI_MAJOR_VERSION, NVENCAPI_MINOR_VERSION))

NVENCAPI_STRUCT_VERSION(ver, high) ==
    U32(BitOr(BitOr(NVENCAPI_VERSION.hi, ver), (IF high THEN 15 ELSE 7) * 4096),
        NVENCAPI_VERSION.lo)

NV_ENCODE_API_FUNCTION_LIST_VER == NVENCAPI_STRUCT_VERSION(2, FALSE)
NV_ENC_OPEN_ENCODE_SESSION_EX_PARAMS_VER == NVENCAPI_STRUCT_VERSION(1, FALSE)
NV_ENC_PRESET_CONFIG_VER == NVENCAPI_STRUCT_VERSION(5, TRUE)
NV_ENC_CONFIG_VER == NVENCAPI_STRUCT_VERSION(9, TRUE)
NV_ENC_INITIALIZE_PARAMS_VER == NVENCAPI_STRUCT_VERSION(7, TRUE)
NV_ENC_RECONFIGURE_PARAMS_VER == NVENCAPI_STRUCT_VERSION(2, TRUE)
NV_ENC_SEQUENCE_PARAM_PAYLOAD_VER == NVENCAPI_STRUCT_VERSION(1, FALSE)

(***************************************************************************)
(* Identifiers.  An FGuid is four uint32 components; the vendor GUID is    *)
(* Data1 (32 bits), Data2, Data3 (16 bits) and eight bytes Data4.          *)
(***************************************************************************)
FGuid(a, b, c, d) == [A |-> a, B |-> b, C |-> c, D |-> d]
InvalidGuid == FGuid(U32Zero, U32Zero, U32Zero, U32Zero)
\* FGuid::IsValid: some component is non-zero.
IsValidGuid(g) == g # InvalidGuid

ToWindowsGuid(InGuid) ==
    [Data1 |-> InGuid.A,
     Data2 |-> InGuid.B.hi % 65536,
     Data3 |-> InGuid.B.lo % 65536,
     Data4 |-> << InGuid.C.hi \div 256, InGuid.C.hi % 256,
                  InGuid.C.lo \div 256, InGuid.C.lo % 256,
                  InGuid.D.hi \div 256, InGuid.D.hi % 256,
                  InGuid.D.lo \div 256, InGuid.D.lo % 256 >>]

FromWindowsGuid(InGuid) ==
    FGuid(InGuid.Data1,
          U32(InGuid.Data2, InGuid.Data3),
          U32(InGuid.Data4[1] * 256 + InGuid.Data4[2], InGuid.Data4[3] * 256 + InGuid.Data4[4]),
          U32(InGuid.Data4[5] * 256 + InGuid.Data4[6], InGuid.Data4[7] * 256 + InGuid.Data4[8]))

\* 790CDC88 45224D7B 9425BDA9 975F7603 / 6BC82762 4E634CA4 AA851E50 F321F6BF
CodecGuid(Codec) ==
    IF Codec = "HEVC"
    THEN FGuid(U32(30988, 56456), U32(17698, 19835), U32(37925, 48553), U32(38751, 30211))
    ELSE FGuid(U32(27592, 10082), U32(20067, 19620), U32(43653, 7760), U32(62241, 63167))
\* 60E4C05A 53334E09 9AB500A3 1E99756F
PresetDefaultGuid ==
    FGuid(U32(24804, 49242), U32(21299, 19977), U32(39605, 163), U32(7833, 30063))
\* FC0A8D3E 45F84CF8 80C72988 71590EBF
PresetP1Guid ==
    FGuid(U32(64522, 36158), U32(17912, 19704), U32(32967, 10632), U32(29017, 3775))
\* F581CFB8 88D64381 93F0DF13 F9C27DAB
PresetP2Guid ==
    FGuid(U32(62849, 53176), U32(35030, 17281), U32(37872, 57107), U32(63938, 32171))
\* 36850110 3A07441F 94D53670 631F91F6
PresetP3Guid ==
    FGuid(U32(13957, 272), U32(14855, 17439), U32(38101, 13936), U32(25375, 37366))
\* 90A7B826 DF064862 B9D2CD6D 73A08681
PresetP4Guid ==
    FGuid(U32(37031, 47142), U32(57094, 18530), U32(47570, 52589), U32(29600, 34433))
\* 21C6E6B4 297A4CBA 998FB6CB DE72ADE3
PresetP5Guid ==
    FGuid(U32(8646, 59060), U32(10618, 19642), U32(39311, 46795), U32(56946, 44515))
\* 8E75C279 62994AB6 83020B21 5A335CF5
PresetP6Guid ==
    FGuid(U32(36469, 49785), U32(25241, 19126), U32(33538, 2849), U32(23091, 23797))
\* 84848C12 6F714C13 931B53E2 83F57974
PresetP7Guid ==
    FGuid(U32(33924, 35858), U32(28529, 19475), U32(37659, 21474), U32(33781, 31092))
\* B3D9DC6F 9F9A4FF2 B2EAEF0C DE24825B
PresetLowLatencyHighQualityGuid ==
    FGuid(U32(46041, 56431), U32(40858, 20466), U32(45802, 61196), U32(56868, 33371))

PresetGuidToString(Guid) ==
    CASE Guid = PresetDefaultGuid -> "NV_ENC_PRESET_DEFAULT"
      [] Guid = PresetP1Guid -> "NV_ENC_PRESET_P1"
      [] Guid = PresetP2Guid -> "NV_ENC_PRESET_P2"
      [] Guid = PresetP3Guid -> "NV_ENC_PRESET_P3"
      [] Guid = PresetP4Guid -> "NV_ENC_PRESET_P4"
      [] Guid = PresetP5Guid -> "NV_ENC_PRESET_P5"
      [] Guid = PresetP6Guid -> "NV_ENC_PRESET_P6"
      [] Guid = PresetP7Guid -> "NV_ENC_PRESET_P7"
      [] Guid = PresetLowLatencyHighQualityGuid -> "NV_ENC_PRESET_LOW_LATENCY_HQ"
      [] OTHER -> "GUID"

(***************************************************************************)
(* Session-private conversions (anonymous namespace of NVENCSession.cpp).  *)
(***************************************************************************)
NV_ENC_DEVICE_TYPE_DIRECTX == "DirectX"
NV_ENC_DEVICE_TYPE_CUDA == "CUDA"
\* The tag 0x3 the plugin uses for Direct3D 11 devices.
GetDirectX11DeviceType == "DirectX11"

\* <<found, guid>>: the nine presets of the switch; any other value is refused.
PresetEnumToGuid(Preset) ==
    CASE Preset = "Default" -> <<TRUE, ToWindowsGuid(PresetDefaultGuid)>>
      [] Preset = "LowLatencyHighQuality" -> <<TRUE, ToWindowsGuid(PresetLowLatencyHighQualityGuid)>>
      [] Preset = "P1" -> <<TRUE, ToWindowsGuid(PresetP1Guid)>>
      [] Preset = "P2" -> <<TRUE, ToWindowsGuid(PresetP2Guid)>>
      [] Preset = "P3" -> <<TRUE, ToWindowsGuid(PresetP3Guid)>>
      [] Preset = "P4" -> <<TRUE, ToWindowsGuid(PresetP4Guid)>>
      [] Preset = "P5" -> <<TRUE, ToWindowsGuid(PresetP5Guid)>>
      [] Preset = "P6" -> <<TRUE, ToWindowsGuid(PresetP6Guid)>>
      [] Preset = "P7" -> <<TRUE, ToWindowsGuid(PresetP7Guid)>>
      [] OTHER -> <<FALSE, ToWindowsGuid(InvalidGuid)>>

ToNVTuning(Mode) ==
    CASE Mode = "HighQuality" -> "NV_ENC_TUNING_INFO_HIGH_QUALITY"
      [] Mode = "LowLatency" -> "NV_ENC_TUNING_INFO_LOW_LATENCY"
      [] Mode = "UltraLowLatency" -> "NV_ENC_TUNING_INFO_ULTRA_LOW_LATENCY"
      [] Mode = "Lossless" -> "NV_ENC_TUNING_INFO_LOSSLESS"
      [] OTHER -> "NV_ENC_TUNING_INFO_UNDEFINED"

FromNVTuning(Mode) ==
    CASE Mode = "NV_ENC_TUNING_INFO_HIGH_QUALITY" -> "HighQuality"
      [] Mode = "NV_ENC_TUNING_INFO_LOW_LATENCY" -> "LowLatency"
      [] Mode = "NV_ENC_TUNING_INFO_ULTRA_LOW_LATENCY" -> "UltraLowLatency"
      [] Mode = "NV_ENC_TUNING_INFO_LOSSLESS" -> "Lossless"
      [] OTHER -> "Automatic"

ToNVFormat(Format) ==
    CASE Format = "P010" -> "NV_ENC_BUFFER_FORMAT_YUV420_10BIT"
      [] Format = "BGRA" -> "NV_ENC_BUFFER_FORMAT_ARGB"
      [] OTHER -> "NV_ENC_BUFFER_FORMAT_NV12"

ToNVBitDepth(Format) ==
    IF Format = "NV_ENC_BUFFER_FORMAT_YUV420_10BIT"
    THEN "NV_ENC_BIT_DEPTH_10"
    ELSE "NV_ENC_BIT_DEPTH_8"

GetChromaFormatIDC(Format) ==
    IF Format = "NV_ENC_BUFFER_FORMAT_ARGB" THEN 3 ELSE 1

ToNVRateControl(Mode) ==
    CASE Mode = "CONSTQP" -> "NV_ENC_PARAMS_RC_CONSTQP"
      [] Mode = "VBR" -> "NV_ENC_PARAMS_RC_VBR"
      [] OTHER -> "NV_ENC_PARAMS_RC_CBR"

ToNVMultiPass(Mode) ==
    CASE Mode = "QUARTER" -> "NV_ENC_TWO_PASS_QUARTER_RESOLUTION"
      [] Mode = "FULL" -> "NV_ENC_TWO_PASS_FULL_RESOLUTION"
      [] OTHER -> "NV_ENC_MULTI_PASS_DISABLED"

(***************************************************************************)
(* FNVENCParameters.  The descriptor's declaration (and so its defaults)   *)
(* is in a header; the default below follows the specification: no         *)
(* realized preset, no realized tuning, QP bounds unset.                   *)
(***************************************************************************)
DefaultParameters ==
    [Codec |-> "H264", BufferFormat |-> "NV12",
     Width |-> 1920, Height |-> 1080, Framerate |-> 60,
     TargetBitrate |-> 8000, MaxBitrate |-> 12000,
     QPMin |-> -1, QPMax |-> -1,
     RateControlMode |-> "CBR", MultipassMode |-> "DISABLED",
     GOPLength |-> 0,
     bEnableLookahead |-> FALSE, bEnableAdaptiveQuantization |-> FALSE,
     RequestedPreset |-> "Automatic", RequestedTuning |-> "Automatic",
     ActivePresetGuid |-> InvalidGuid, ActiveTuning |-> "Automatic"]

(***************************************************************************)
(* State.  The first twelve variables are the members of FNVENCSession;    *)
(* deviceEncoders is the device's side (the encoder handles it has opened  *)
(* and not yet destroyed) and opened counts the sessions it has opened;    *)
(* lastCall and calls record the latest public call: its name, arguments   *)
(* and result, and the vendor entry points it invoked, in order, with what *)
(* each returned.  Cache is the identifier registry of FNVENCDefs, a       *)
(* static of the process: the entries GuidFromComponents has interned;     *)
(* under SpecGuid calls is the log of the registry's calls.                *)
(***************************************************************************)
VARIABLES bIsOpen, bIsInitialised, Encoder, Device, DeviceType, ApiVersion,
          FunctionList, CurrentParameters, EncodeConfig, InitializeParams,
          NvBufferFormat, LastErrorMessage,
          deviceEncoders, opened, lastCall, calls, Cache

vars == <<bIsOpen, bIsInitialised, Encoder, Device, DeviceType, ApiVersion,
          FunctionList, CurrentParameters, EncodeConfig, InitializeParams,
          NvBufferFormat, LastErrorMessage, deviceEncoders, opened, lastCall, calls,
          Cache>>

\* nullptr, for encoder handles (naturals) and device handles (strings).
NullEncoder == 0
NullDevice == "nullptr"

\* The session object as one record, for the methods that call each other.
Self ==
    [bIsOpen |-> bIsOpen, bIsInitialised |-> bIsInitialised, Encoder |-> Encoder,
     Device |-> Device, DeviceType |-> DeviceType, ApiVersion |-> ApiVersion,
     FunctionList |-> FunctionList, CurrentParameters |-> CurrentParameters,
     EncodeConfig |-> EncodeConfig, InitializeParams |-> InitializeParams,
     NvBufferFormat |-> NvBufferFormat, LastErrorMessage |-> LastErrorMessage]

\* F of v, with v computed once: a local whose value is used more than once.
With(v, F(_)) == F(v)

\* A method's outcome: the session after it, the device's live handles, the
\* entry points invoked, and the value returned.
Outcome(s, live, log, ret) == [s |-> s, live |-> live, log |-> log, ret |-> ret]

\* The encoder sessions the device opened in a sequence of invocations.
SessionsOpened(log) ==
    Cardinality({i \in 1..Len(log) :
                    log[i].fn = "nvEncOpenEncodeSessionEx" /\ log[i].st = NV_ENC_SUCCESS})

\* The state after a public call.
Commit(op, args, o, out) ==
    /\ bIsOpen' = o.s.bIsOpen
    /\ bIsInitialised' = o.s.bIsInitialised
    /\ Encoder' = o.s.Encoder
    /\ Device' = o.s.Device
    /\ DeviceType' = o.s.DeviceType
    /\ ApiVersion' = o.s.ApiVersion
    /\ FunctionList' = o.s.FunctionList
    /\ CurrentParameters' = o.s.CurrentParameters
    /\ EncodeConfig' = o.s.EncodeConfig
    /\ InitializeParams' = o.s.InitializeParams
    /\ NvBufferFormat' = o.s.NvBufferFormat
    /\ LastErrorMessage' = o.s.LastErrorMessage
    /\ deviceEncoders' = o.live
    /\ opened' = opened + SessionsOpened(o.log)
    /\ calls' = o.log
    /\ lastCall' = [op |-> op, args |-> args, ret |-> o.ret, out |-> out]
    /\ Cache' = Cache

\* An invocation of a vendor entry point: the handle and arguments passed, the
\* version tokens of the structs passed, the status and the value returned.
Call(fn, enc, arg, ver, st, out) ==
    [fn |-> fn, enc |-> enc, arg |-> arg, ver |-> ver, st |-> st, out |-> out]

\* FString: the empty string is <<>>, a message is its text and, where the
\* code formats one in, the status label.
NoError == << >>
Message(text) == << text >>
StatusMessage(text, Status) == << text, StatusToString(Status) >>

(***************************************************************************)
(* The encoder device's answers to preset-configuration queries:           *)
(* accept holds the <<handle kind, preset, query>> triples it accepts      *)
(* (query "base" is nvEncGetEncodePresetConfig, any other the tuning of    *)
(* nvEncGetEncodePresetConfigEx); every other query is rejected, with      *)
(* oddRej for the preset oddGuid, nullRej without a handle, else rej.      *)
(***************************************************************************)
HandleKind(h) == IF h = NullEncoder THEN "null" ELSE "enc"

DevQuery(dev, h, PresetGuid, query) ==
    IF <<HandleKind(h), PresetGuid, query>> \in dev.accept THEN NV_ENC_SUCCESS
    ELSE IF PresetGuid = dev.oddGuid THEN dev.oddRej
    ELSE IF h = NullEncoder THEN dev.nullRej
    ELSE dev.rej

\* The preset configuration the device writes on a successful query.
DevicePresetCfg ==
    [rateControlMode |-> "NV_ENC_PARAMS_RC_VBR", averageBitRate |-> 0, maxBitRate |-> 0,
     enableLookahead |-> 0, enableAQ |-> 0, enableTemporalAQ |-> 0, enableInitialRCQP |-> 0,
     qpInterB |-> 28, qpInterP |-> 28, qpIntra |-> 25,
     multiPass |-> "NV_ENC_MULTI_PASS_DISABLED",
     version |-> U32Zero, gopLength |-> U32(0, 250), frameIntervalP |-> 3,
     profileGUID |-> "NV_ENC_CODEC_PROFILE_AUTOSELECT_GUID",
     codecConfig |-> [member |-> "preset", level |-> "NV_ENC_LEVEL_AUTOSELECT",
                      idrPeriod |-> U32(0, 250), chromaFormatIDC |-> 1,
                      inputBitDepth |-> "NV_ENC_BIT_DEPTH_8",
                      outputBitDepth |-> "NV_ENC_BIT_DEPTH_8"]]

\* NV_ENC_CONFIG and NV_ENC_INITIALIZE_PARAMS zero-initialised.
ZeroEncodeConfig ==
    [version |-> U32Zero,
     rateControlMode |-> "0", averageBitRate |-> 0, maxBitRate |-> 0,
     enableLookahead |-> 0, enableAQ |-> 0, enableTemporalAQ |-> 0, enableInitialRCQP |-> 0,
     qpInterB |-> 0, qpInterP |-> 0, qpIntra |-> 0,
     multiPass |-> "0", gopLength |-> U32Zero, frameIntervalP |-> 0,
     profileGUID |-> "0",
     codecConfig |-> [member |-> "0", level |-> "0", idrPeriod |-> U32Zero,
                      chromaFormatIDC |-> 0, inputBitDepth |-> "0", outputBitDepth |-> "0"]]

ZeroInitializeParams ==
    [version |-> U32Zero, encodeGUID |-> ToWindowsGuid(InvalidGuid),
     presetGUID |-> ToWindowsGuid(InvalidGuid), tuningInfo |-> "NV_ENC_TUNING_INFO_UNDEFINED",
     encodeWidth |-> 0, encodeHeight |-> 0, darWidth |-> 0, darHeight |-> 0,
     frameRateNum |-> 0, frameRateDen |-> 0, enablePTD |-> 0,
     encodeConfig |-> "nullptr",
     maxEncodeWidth |-> 0, maxEncodeHeight |-> 0,
     bufferFormat |-> "NV_ENC_BUFFER_FORMAT_UNDEFINED",
     enableEncodeAsync |-> 0]

\* Preset structs that carry the header's tokens unpatched.
PresetConfigVersions_CompileTime(api) ==
    <<NV_ENC_PRESET_CONFIG_VER, NV_ENC_CONFIG_VER>>

\* The version tokens of the NV_ENC_PRESET_CONFIG a preset query passes and of
\* the NV_ENC_CONFIG in it.
PresetConfigVersions(api) ==
    <<PatchStructVersion(NV_ENC_PRESET_CONFIG_VER, api), PatchStructVersion(NV_ENC_CONFIG_VER, api)>>

RECURSIVE TryTunings(_, _, _, _, _, _, _)
\* The loop over TuningAttempts: nvEncGetEncodePresetConfigEx per tuning, in
\* order, until one succeeds.  <<last status, invocations>>; Status is the
\* status before the loop, kept if there is nothing to try.
TryTunings(dev, h, CodecG, PresetGuid, Attempts, ver, Status) ==
    IF Attempts = << >> THEN <<Status, << >> >>
    ELSE With(DevQuery(dev, h, PresetGuid, Head(Attempts)), LAMBDA st :
         With(Call("nvEncGetEncodePresetConfigEx", h, <<CodecG, PresetGuid, Head(Attempts)>>,
                   ver, st, << >>), LAMBDA c :
            IF st = NV_ENC_SUCCESS
            THEN <<st, <<c>> >>
            ELSE With(TryTunings(dev, h, CodecG, PresetGuid, Tail(Attempts), ver, st),
                      LAMBDA rest : <<rest[1], <<c>> \o rest[2]>>)))

\* t appended to seq unless it is there.
AddUnique(seq, t) ==
    IF \E i \in 1..Len(seq) : seq[i] = t THEN seq ELSE Append(seq, t)

\* ValidatePresetConfiguration's TuningAttempts: the preferred tuning, the
\* four defined tunings not yet there, then UNDEFINED (appended always).
ValidationTuningAttempts(PreferredTuning) ==
    LET AddAttempt(seq, t) ==
            IF t # "NV_ENC_TUNING_INFO_UNDEFINED" THEN AddUnique(seq, t) ELSE seq
    IN Append(AddAttempt(AddAttempt(AddAttempt(AddAttempt(<<PreferredTuning>>,
                "NV_ENC_TUNING_INFO_LOW_LATENCY"),
                "NV_ENC_TUNING_INFO_HIGH_QUALITY"),
                "NV_ENC_TUNING_INFO_ULTRA_LOW_LATENCY"),
                "NV_ENC_TUNING_INFO_LOSSLESS"),
              "NV_ENC_TUNING_INFO_UNDEFINED")

\* Initialize's TuningAttempts: the candidate's tuning, then each of
\* UNDEFINED, HIGH_QUALITY, LOW_LATENCY, ULTRA_LOW_LATENCY, LOSSLESS not yet there.
InitializeTuningAttempts(Tuning) ==
    AddUnique(AddUnique(AddUnique(AddUnique(AddUnique(<<Tuning>>,
                "NV_ENC_TUNING_INFO_UNDEFINED"),
                "NV_ENC_TUNING_INFO_HIGH_QUALITY"),
                "NV_ENC_TUNING_INFO_LOW_LATENCY"),
                "NV_ENC_TUNING_INFO_ULTRA_LOW_LATENCY"),
                "NV_ENC_TUNING_INFO_LOSSLESS")

\* The QueryPreset / QueryPresetConfig lambdas: the plain query, then, if it
\* failed and the extended entry point exists, the tuning attempts.
\* ver is PresetConfigVersions of the session's API version.
\* <<status, invocations>>.
QueryPreset(dev, table, h, CodecG, PresetGuid, Attempts, ver) ==
    With(DevQuery(dev, h, PresetGuid, "base"), LAMBDA st0 :
    With(Call("nvEncGetEncodePresetConfig", h, <<CodecG, PresetGuid>>, ver, st0, << >>),
         LAMBDA c0 :
       IF st0 # NV_ENC_SUCCESS /\ "nvEncGetEncodePresetConfigEx" \in table
       THEN With(TryTunings(dev, h, CodecG, PresetGuid, Attempts, ver, st0),
                 LAMBDA ex : <<ex[1], <<c0>> \o ex[2]>>)
       ELSE <<st0, <<c0>> >>))

(***************************************************************************)
(* FNVENCSession::Destroy                                                  *)
(***************************************************************************)
\* A reset that leaves the session flagged open and initialised.
ClosedBaseline_KeepsFlags(s) ==
    [s EXCEPT !.Encoder = NullEncoder, !.Device = NullDevice, !.FunctionList = {},
              !.CurrentParameters = DefaultParameters, !.ApiVersion = NVENCAPI_VERSION]

\* A reset that keeps the stored parameters.
ClosedBaseline_KeepsParameters(s) ==
    [s EXCEPT !.Encoder = NullEncoder, !.Device = NullDevice, !.bIsInitialised = FALSE,
              !.bIsOpen = FALSE, !.FunctionList = {}, !.ApiVersion = NVENCAPI_VERSION]

\* A reset that keeps the negotiated API version.
ClosedBaseline_KeepsVersion(s) ==
    [s EXCEPT !.Encoder = NullEncoder, !.Device = NullDevice, !.bIsInitialised = FALSE,
              !.bIsOpen = FALSE, !.FunctionList = {}, !.CurrentParameters = DefaultParameters]

\* The members Destroy resets, once the encoder has been released.
ClosedBaseline(s) ==
    [s EXCEPT !.Encoder = NullEncoder,
              !.Device = NullDevice,
              !.bIsInitialised = FALSE,
              !.bIsOpen = FALSE,
              !.FunctionList = {},
              !.CurrentParameters = DefaultParameters,
              !.ApiVersion = NVENCAPI_VERSION]

\* A Destroy that never calls the device.
DestroyInvokes_Never(s) == FALSE

\* Whether Destroy invokes nvEncDestroyEncoder.
DestroyInvokes(s) ==
    s.Encoder # NullEncoder /\ "nvEncDestroyEncoder" \in s.FunctionList

\* A Destroy that releases the encoder and resets nothing.
DoDestroy_ReleasesOnly(s, live, destroySt) ==
    IF s.bIsOpen /\ DestroyInvokes(s)
    THEN Outcome(s, IF destroySt = NV_ENC_SUCCESS THEN live \ {s.Encoder} ELSE live,
                 << Call("nvEncDestroyEncoder", s.Encoder, << >>, << >>, destroySt,
                         s.Encoder \in live) >>,
                 "void")
    ELSE Outcome(s, live, << >>, "void")

\* destroySt is the status nvEncDestroyEncoder returns; the device releases
\* the handle when it reports success.
DoDestroy(s, live, destroySt) ==
    IF ~s.bIsOpen
    THEN Outcome(s, live, << >>, "void")
    ELSE IF DestroyInvokes(s)
    THEN Outcome(ClosedBaseline(s),
                 IF destroySt = NV_ENC_SUCCESS THEN live \ {s.Encoder} ELSE live,
                 << Call("nvEncDestroyEncoder", s.Encoder, << >>, << >>, destroySt,
                         s.Encoder \in live) >>,
                 "void")
    ELSE Outcome(ClosedBaseline(s), live, << >>, "void")

(***************************************************************************)
(* FNVENCSession::ValidatePresetConfiguration                              *)
(***************************************************************************)
ValidationPreset(Guid, PreferredTuning, FriendlyName) ==
    [Guid |-> ToWindowsGuid(Guid), PreferredTuning |-> PreferredTuning,
     FriendlyName |-> FriendlyName]

ValidationPresets ==
    << ValidationPreset(PresetDefaultGuid, "NV_ENC_TUNING_INFO_UNDEFINED", "NV_ENC_PRESET_DEFAULT"),
       ValidationPreset(PresetLowLatencyHighQualityGuid, "NV_ENC_TUNING_INFO_LOW_LATENCY", "NV_ENC_PRESET_LOW_LATENCY_HQ"),
       ValidationPreset(PresetP1Guid, "NV_ENC_TUNING_INFO_LOW_LATENCY", "NV_ENC_PRESET_P1"),
       ValidationPreset(PresetP2Guid, "NV_ENC_TUNING_INFO_LOW_LATENCY", "NV_ENC_PRESET_P2"),
       ValidationPreset(PresetP3Guid, "NV_ENC_TUNING_INFO_HIGH_QUALITY", "NV_ENC_PRESET_P3"),
       ValidationPreset(PresetP4Guid, "NV_ENC_TUNING_INFO_HIGH_QUALITY", "NV_ENC_PRESET_P4"),
       ValidationPreset(PresetP5Guid, "NV_ENC_TUNING_INFO_HIGH_QUALITY", "NV_ENC_PRESET_P5"),
       ValidationPreset(PresetP6Guid, "NV_ENC_TUNING_INFO_HIGH_QUALITY", "NV_ENC_PRESET_P6"),
       ValidationPreset(PresetP7Guid, "NV_ENC_TUNING_INFO_LOSSLESS", "NV_ENC_PRESET_P7") >>

\* Whether the query of a validation preset is repeated without a handle.
ValidationRetriesWithoutHandle(Status, bAllowNullFallback) ==
    /\ Status # NV_ENC_SUCCESS
    /\ bAllowNullFallback
    /\ Status \in {NV_ENC_ERR_INVALID_PARAM, NV_ENC_ERR_INVALID_ENCODERDEVICE}

\* A validation loop that goes on only after an invalid-parameter status.
ValidationContinues_InvalidParamOnly(Status) == Status = NV_ENC_ERR_INVALID_PARAM

\* The statuses after which the validation loop goes on to the next preset.
ValidationContinues(Status) ==
    \/ Status \in {NV_ENC_ERR_INVALID_PARAM, NV_ENC_ERR_UNSUPPORTED_PARAM}
    \/ Status = NV_ENC_ERR_INVALID_ENCODERDEVICE

RECURSIVE ValidationScan(_, _, _, _, _, _, _)
\* The loop over ValidationPresets from index i on; Last is LastPresetStatus
\* so far.  <<LastPresetStatus, bValidated, invocations>>.
ValidationScan(dev, s, CodecG, ver, bAllowNullFallback, i, Last) ==
    IF i > Len(ValidationPresets) THEN <<Last, FALSE, << >> >>
    ELSE With(ValidationPresets[i], LAMBDA p :
         With(ValidationTuningAttempts(p.PreferredTuning), LAMBDA attempts :
         With(QueryPreset(dev, s.FunctionList, s.Encoder, CodecG, p.Guid, attempts, ver),
              LAMBDA q1 :
         With(IF ValidationRetriesWithoutHandle(q1[1], bAllowNullFallback)
              THEN QueryPreset(dev, s.FunctionList, NullEncoder, CodecG, p.Guid, attempts, ver)
              ELSE <<q1[1], << >> >>,
              LAMBDA q2 :
         With(q1[2] \o q2[2], LAMBDA log :
            IF q2[1] = NV_ENC_SUCCESS THEN <<q2[1], TRUE, log>>
            ELSE IF ValidationContinues(q2[1])
            THEN With(ValidationScan(dev, s, CodecG, ver, bAllowNullFallback, i + 1, q2[1]),
                      LAMBDA r : <<r[1], r[2], log \o r[3]>>)
            ELSE <<q2[1], FALSE, log>>)))))

\* The description set when no validation preset was accepted.
ValidationFailureMessage(LastPresetStatus) ==
    IF LastPresetStatus = NV_ENC_ERR_INVALID_ENCODERDEVICE
    THEN StatusMessage("NVENC runtime rejected the provided DirectX device", LastPresetStatus)
    ELSE StatusMessage("NvEncGetEncodePresetConfig validation failed", LastPresetStatus)

DoValidatePresetConfiguration(s, live, Codec, bAllowNullFallback, dev) ==
    With([s EXCEPT !.LastErrorMessage = NoError], LAMBDA s0 :
       IF ~s0.bIsOpen \/ s0.Encoder = NullEncoder
       THEN Outcome([s0 EXCEPT !.LastErrorMessage =
                        Message("Cannot validate NVENC preset configuration - encoder is not open.")],
                    live, << >>, FALSE)
       ELSE IF "nvEncGetEncodePresetConfig" \notin s0.FunctionList
       THEN Outcome([s0 EXCEPT !.LastErrorMessage =
                        Message("Required NVENC export 'NvEncGetEncodePresetConfig' is missing.")],
                    live, << >>, FALSE)
       ELSE With(ValidationScan(dev, s0, ToWindowsGuid(CodecGuid(Codec)),
                                PresetConfigVersions(s0.ApiVersion), bAllowNullFallback,
                                1, NV_ENC_ERR_NO_ENCODE_DEVICE),
                 LAMBDA r :
                    IF ~r[2]
                    THEN Outcome([s0 EXCEPT !.LastErrorMessage = ValidationFailureMessage(r[1])],
                                 live, r[3], FALSE)
                    ELSE Outcome(s0, live, r[3], TRUE)))

(***************************************************************************)
(* FNVENCSession::Open                                                     *)
(***************************************************************************)
\* A negotiation that keeps the compile-time version whatever the runtime reports.
NegotiateApiVersion_KeepsCompileTime(ver) ==
    [version |-> DecodeApiVersion(NVENCAPI_VERSION), api |-> NVENCAPI_VERSION,
     log |-> IF ver.kind = "call"
             THEN << Call("NvEncodeAPIGetMaxSupportedVersion", NullEncoder, << >>, << >>,
                          ver.st, ver.raw) >>
             ELSE << >>]

\* The version negotiation at the head of Open.  ver is what the runtime
\* library offers: kind "nohandle" (no library handle), "noexport" (no
\* NvEncodeAPIGetMaxSupportedVersion export) or "call" with the status and the
\* raw value the export returns.  The negotiated version, its encoding, and
\* the invocation made.
NegotiateApiVersion(ver) ==
    LET Compile == DecodeApiVersion(NVENCAPI_VERSION)
        Runtime == DecodeRuntimeVersion(ver.raw)
        log == IF ver.kind = "call"
               THEN << Call("NvEncodeAPIGetMaxSupportedVersion", NullEncoder, << >>, << >>,
                            ver.st, ver.raw) >>
               ELSE << >>
    IN IF /\ ver.kind = "call"
          /\ ver.st = NV_ENC_SUCCESS
          /\ ver.raw # U32Zero
          /\ (Runtime.Major # 0 \/ Runtime.Minor # 0)
          /\ IsVersionOlder(Runtime, Compile)
       THEN [version |-> Runtime, api |-> EncodeApiVersion(Runtime), log |-> log]
       ELSE [version |-> Compile, api |-> NVENCAPI_VERSION, log |-> log]

\* A candidate list of the caller's device type alone.
DeviceTypeCandidates_HintOnly(InDeviceType) == << InDeviceType >>

\* TryAddCandidate: appended unless present or four are held.
TryAddCandidate(Candidates, Candidate) ==
    IF \E i \in 1..Len(Candidates) : Candidates[i] = Candidate THEN Candidates
    ELSE IF Len(Candidates) < 4 THEN Append(Candidates, Candidate)
    ELSE Candidates

\* CandidateTypes as Open builds it from the caller's device type.
DeviceTypeCandidates(InDeviceType) ==
    LET c1 == IF InDeviceType = NV_ENC_DEVICE_TYPE_DIRECTX \/ InDeviceType = GetDirectX11DeviceType
              THEN TryAddCandidate(<< >>, GetDirectX11DeviceType)
              ELSE << >>
        c2 == TryAddCandidate(c1, InDeviceType)
    IN IF InDeviceType = GetDirectX11DeviceType
       THEN TryAddCandidate(c2, NV_ENC_DEVICE_TYPE_DIRECTX)
       ELSE IF InDeviceType = NV_ENC_DEVICE_TYPE_DIRECTX
       THEN TryAddCandidate(c2, NV_ENC_DEVICE_TYPE_DIRECTX)
       ELSE c2

\* The handle the device returns for a new encoder.
NewEncoder(live) == CHOOSE h \in 1..(Cardinality(live) + 1) : h \notin live

RECURSIVE OpenScan(_, _, _, _, _, _, _)
\* The loop over CandidateTypes from index i on: nvEncOpenEncodeSessionEx per
\* candidate until one succeeds.  openSt[type] is the device's status for a
\* device type.  [Status, Encoder, Selected, log].
OpenScan(openSt, Candidates, i, Status, s, InDevice, live) ==
    IF i > Len(Candidates)
    THEN [Status |-> Status, Encoder |-> NullEncoder, Selected |-> << >>, log |-> << >>]
    ELSE With(openSt[Candidates[i]], LAMBDA st :
         With(IF st = NV_ENC_SUCCESS THEN NewEncoder(live) ELSE NullEncoder, LAMBDA h :
         With(Call("nvEncOpenEncodeSessionEx", NullEncoder,
                   <<Candidates[i], InDevice, s.ApiVersion>>,
                   <<PatchStructVersion(NV_ENC_OPEN_ENCODE_SESSION_EX_PARAMS_VER, s.ApiVersion)>>,
                   st, h),
              LAMBDA c :
            IF st = NV_ENC_SUCCESS
            THEN [Status |-> st, Encoder |-> h, Selected |-> <<Candidates[i]>>, log |-> <<c>>]
            ELSE With(OpenScan(openSt, Candidates, i + 1, st, s, InDevice, live),
                      LAMBDA r : [r EXCEPT !.log = <<c>> \o r.log]))))

\* The members Open sets once a session is open, before validating presets.
OpenedSession(s, Codec, InDevice, SelectedDeviceType) ==
    [s EXCEPT !.Device = InDevice,
              !.DeviceType = SelectedDeviceType,
              !.CurrentParameters = [s.CurrentParameters EXCEPT !.Codec = Codec],
              !.bIsOpen = TRUE,
              !.LastErrorMessage = NoError]

\* Open from the device-type scan on: the function table is in place.
OpenSession(s, live, Codec, InDevice, InDeviceType, env, log) ==
    With([s EXCEPT !.Encoder = NullEncoder], LAMBDA s1 :
    With(OpenScan(env.openSt, DeviceTypeCandidates(InDeviceType), 1,
                  NV_ENC_ERR_INVALID_PARAM, s1, InDevice, live),
         LAMBDA r :
       IF r.Encoder = NullEncoder
       THEN Outcome([s1 EXCEPT !.LastErrorMessage =
                        StatusMessage("NvEncOpenEncodeSessionEx failed", r.Status)],
                    live, log \o r.log, FALSE)
       ELSE With(DoValidatePresetConfiguration(
                    OpenedSession([s1 EXCEPT !.Encoder = r.Encoder], Codec, InDevice,
                                  r.Selected[1]),
                    live \cup {r.Encoder}, Codec, FALSE, env.dev),
                 LAMBDA v :
               IF ~v.ret
               THEN With(DoDestroy(v.s, v.live, env.destroySt), LAMBDA d :
                         Outcome(d.s, d.live, log \o r.log \o v.log \o d.log, FALSE))
               ELSE Outcome(v.s, v.live, log \o r.log \o v.log, TRUE))))

\* Open from NvEncodeAPICreateInstance on: the version is negotiated.
OpenInstance(s, live, Codec, InDevice, InDeviceType, env, log) ==
    IF ~env.hasCreateInstance
    THEN Outcome([s EXCEPT !.LastErrorMessage =
                     Message("Required NVENC export 'NvEncodeAPICreateInstance' is missing.")],
                 live, log, FALSE)
    ELSE With(log \o
              << Call("NvEncodeAPICreateInstance", NullEncoder, << >>,
                      <<PatchStructVersion(NV_ENCODE_API_FUNCTION_LIST_VER, s.ApiVersion)>>,
                      env.createSt, << >>) >>,
              LAMBDA log1 :
         With([s EXCEPT !.FunctionList =
                  IF env.createSt = NV_ENC_SUCCESS THEN env.table ELSE {}],
              LAMBDA s1 :
            IF env.createSt # NV_ENC_SUCCESS
            THEN Outcome([s1 EXCEPT !.LastErrorMessage =
                             StatusMessage("NvEncodeAPICreateInstance failed", env.createSt)],
                         live, log1, FALSE)
            ELSE IF "nvEncOpenEncodeSessionEx" \notin s1.FunctionList
            THEN Outcome([s1 EXCEPT !.LastErrorMessage =
                             Message("Required NVENC export 'NvEncOpenEncodeSessionEx' is missing.")],
                         live, log1, FALSE)
            ELSE OpenSession(s1, live, Codec, InDevice, InDeviceType, env, log1)))

\* An Open that opens a session whether or not one is open.
DoOpen_OpensAgain(s, live, Codec, InDevice, InDeviceType, env) ==
    [o |-> OpenInstance([s EXCEPT !.LastErrorMessage = NoError], live, Codec, InDevice,
                        InDeviceType, env, << >>),
     out |-> [loaded |-> FALSE]]

\* [o, out]: the outcome and, for the record of the call, whether the runtime
\* was loaded and, if so, what it offered (its version answer, its function
\* table, its answers per device type) and the local NegotiatedVersion.
DoOpen(s, live, Codec, InDevice, InDeviceType, env) ==
    With([s EXCEPT !.LastErrorMessage = NoError], LAMBDA s0 :
       IF s0.bIsOpen
       THEN [o |-> Outcome(s0, live, << >>, TRUE), out |-> [loaded |-> FALSE]]
       ELSE IF InDevice = NullDevice
       THEN [o |-> Outcome([s0 EXCEPT !.LastErrorMessage =
                        Message("Failed to open NVENC session - no encoder device was provided.")],
                    live, << >>, FALSE), out |-> [loaded |-> FALSE]]
       ELSE IF ~env.load
       THEN [o |-> Outcome([s0 EXCEPT !.LastErrorMessage =
                        Message("Failed to open NVENC session - NVENC runtime is unavailable.")],
                    live, << >>, FALSE), out |-> [loaded |-> FALSE]]
       ELSE With(NegotiateApiVersion(env.ver), LAMBDA n :
            With([s0 EXCEPT !.ApiVersion = n.api], LAMBDA s1 :
               [o |-> IF IsVersionOlder(n.version, GetMinimumAPIVersion)
                      THEN Outcome([s1 EXCEPT !.LastErrorMessage =
                                Message("NVENC runtime API version is below the minimum supported version.")],
                            live, n.log, FALSE)
                      ELSE OpenInstance(s1, live, Codec, InDevice, InDeviceType, env, n.log),
                out |-> [loaded |-> TRUE, runtime |-> env.ver, NegotiatedVersion |-> n.version,
                         table |-> env.table, openSt |-> env.openSt]])))

(***************************************************************************)
(* FNVENCSession::Initialize                                               *)
(***************************************************************************)
PresetCandidate(Guid, Tuning, Description) ==
    [Guid |-> Guid, Tuning |-> Tuning, Description |-> Description]

\* AddCandidate: appended unless a candidate with that GUID is present.
AddCandidate(PresetCandidates, Guid, Tuning, Description) ==
    IF \E i \in 1..Len(PresetCandidates) : PresetCandidates[i].Guid = Guid
    THEN PresetCandidates
    ELSE Append(PresetCandidates, PresetCandidate(Guid, Tuning, Description))

\* The nine built-in candidates in the order Initialize adds them.
BuiltInCandidates ==
    LET add(c, g, t, d) == AddCandidate(c, ToWindowsGuid(g), t, d)
    IN add(add(add(add(add(add(add(add(add(<< >>,
        PresetDefaultGuid, "NV_ENC_TUNING_INFO_UNDEFINED", "NV_ENC_PRESET_DEFAULT"),
        PresetLowLatencyHighQualityGuid, "NV_ENC_TUNING_INFO_LOW_LATENCY", "NV_ENC_PRESET_LOW_LATENCY_HQ"),
        PresetP1Guid, "NV_ENC_TUNING_INFO_LOW_LATENCY", "NV_ENC_PRESET_P1"),
        PresetP2Guid, "NV_ENC_TUNING_INFO_LOW_LATENCY", "NV_ENC_PRESET_P2"),
        PresetP3Guid, "NV_ENC_TUNING_INFO_HIGH_QUALITY", "NV_ENC_PRESET_P3"),
        PresetP4Guid, "NV_ENC_TUNING_INFO_HIGH_QUALITY", "NV_ENC_PRESET_P4"),
        PresetP5Guid, "NV_ENC_TUNING_INFO_HIGH_QUALITY", "NV_ENC_PRESET_P5"),
        PresetP6Guid, "NV_ENC_TUNING_INFO_HIGH_QUALITY", "NV_ENC_PRESET_P6"),
        PresetP7Guid, "NV_ENC_TUNING_INFO_LOSSLESS", "NV_ENC_PRESET_P7")

\* TArray::Swap of the elements at (1-based) i and j.
SwapElements(seq, i, j) ==
    [k \in 1..Len(seq) |-> IF k = i THEN seq[j] ELSE IF k = j THEN seq[i] ELSE seq[k]]

\* A promotion that leaves the ladder as it is.
PromoteRequested_Ignored(PresetCandidates, Parameters) == PresetCandidates

\* The candidate list after the caller's requested preset and tuning are applied.
PromoteRequested(PresetCandidates, Parameters) ==
    With(PresetEnumToGuid(Parameters.RequestedPreset), LAMBDA req :
    With(ToNVTuning(Parameters.RequestedTuning), LAMBDA RequestedTuning :
    With({i \in 1..Len(PresetCandidates) : PresetCandidates[i].Guid = req[2]}, LAMBDA Found :
       IF req[1]
       THEN IF Found = {}
            THEN << PresetCandidate(req[2], RequestedTuning,
                                    PresetGuidToString(FromWindowsGuid(req[2]))) >>
                 \o PresetCandidates
            ELSE With(CHOOSE i \in Found : \A j \in Found : i <= j, LAMBDA FoundIndex :
                 With(IF RequestedTuning # "NV_ENC_TUNING_INFO_UNDEFINED"
                      THEN [PresetCandidates EXCEPT ![FoundIndex].Tuning = RequestedTuning]
                      ELSE PresetCandidates,
                      LAMBDA retuned :
                        IF FoundIndex # 1 THEN SwapElements(retuned, 1, FoundIndex) ELSE retuned))
       ELSE IF RequestedTuning # "NV_ENC_TUNING_INFO_UNDEFINED" /\ Len(PresetCandidates) > 0
       THEN [PresetCandidates EXCEPT ![1].Tuning = RequestedTuning]
       ELSE PresetCandidates)))

RECURSIVE AddRuntimePresets(_, _, _)
\* The runtime's preset GUIDs appended, each unless present.
AddRuntimePresets(PresetCandidates, RuntimePresets, i) ==
    IF i > Len(RuntimePresets) THEN PresetCandidates
    ELSE AddRuntimePresets(
            AddCandidate(PresetCandidates, RuntimePresets[i], "NV_ENC_TUNING_INFO_HIGH_QUALITY",
                         PresetGuidToString(FromWindowsGuid(RuntimePresets[i]))),
            RuntimePresets, i + 1)

\* The nvEncGetEncodePresetGUIDs enumeration: enum.st1 and enum.guids answer
\* the count query, enum.st2 the fetch.  [candidates, log].
EnumerateRuntimePresets(s, CodecG, PresetCandidates, enum) ==
    IF "nvEncGetEncodePresetGUIDs" \notin s.FunctionList
    THEN [candidates |-> PresetCandidates, log |-> << >>]
    ELSE LET c1 == Call("nvEncGetEncodePresetGUIDs", s.Encoder, <<CodecG, 0>>, << >>,
                        enum.st1, Len(enum.guids))
             c2 == Call("nvEncGetEncodePresetGUIDs", s.Encoder, <<CodecG, Len(enum.guids)>>, << >>,
                        enum.st2, Len(enum.guids))
         IN IF enum.st1 = NV_ENC_SUCCESS /\ Len(enum.guids) > 0
            THEN IF enum.st2 = NV_ENC_SUCCESS
                 THEN [candidates |-> AddRuntimePresets(PresetCandidates, enum.guids, 1),
                       log |-> <<c1, c2>>]
                 ELSE [candidates |-> PresetCandidates, log |-> <<c1, c2>>]
            ELSE [candidates |-> PresetCandidates, log |-> <<c1>>]

\* Whether Initialize repeats a candidate's query without a handle.
InitializeRetriesWithoutHandle(Status, EncoderHandle) ==
    /\ Status \in {NV_ENC_ERR_INVALID_PARAM, NV_ENC_ERR_INVALID_ENCODERDEVICE}
    /\ EncoderHandle # NullEncoder

\* The status at which Initialize's candidate loop breaks off.
InitializeBreaks(Status) == Status = NV_ENC_ERR_INVALID_ENCODERDEVICE

RECURSIVE InitializeScan(_, _, _, _, _, _, _)
\* The loop over PresetCandidates from index i on.
\* <<LastPresetStatus, SelectedPresetIndex (0: none), invocations>>.
InitializeScan(dev, s, CodecG, ver, PresetCandidates, i, Last) ==
    IF i > Len(PresetCandidates) THEN <<Last, 0, << >> >>
    ELSE With(PresetCandidates[i], LAMBDA cand :
         With(InitializeTuningAttempts(cand.Tuning), LAMBDA attempts :
         With(QueryPreset(dev, s.FunctionList, s.Encoder, CodecG, cand.Guid, attempts, ver),
              LAMBDA q1 :
         With(IF InitializeRetriesWithoutHandle(q1[1], s.Encoder)
              THEN QueryPreset(dev, s.FunctionList, NullEncoder, CodecG, cand.Guid, attempts, ver)
              ELSE <<q1[1], << >> >>,
              LAMBDA q2 :
         With(q1[2] \o q2[2], LAMBDA log :
            IF q2[1] = NV_ENC_SUCCESS THEN <<q2[1], i, log>>
            ELSE IF InitializeBreaks(q2[1]) THEN <<q2[1], 0, log>>
            ELSE With(InitializeScan(dev, s, CodecG, ver, PresetCandidates, i + 1, q2[1]),
                      LAMBDA r : <<r[1], r[2], log \o r[3]>>))))))

\* NVENC_INFINITE_GOPLENGTH (0xffffffff) for GOP length 0.
GopLengthOf(GOPLength) ==
    IF GOPLength = 0 THEN U32(65535, 65535) ELSE U32(0, GOPLength)

\* A session that takes the requested buffer format for any codec.
EffectiveBufferFormat_AsRequested(Parameters) == Parameters.BufferFormat

\* The buffer format Initialize settles on for the codec.
EffectiveBufferFormat(Parameters) ==
    IF Parameters.Codec = "H264" /\ Parameters.BufferFormat # "NV12" THEN "NV12"
    ELSE IF Parameters.Codec = "HEVC" /\ Parameters.BufferFormat = "BGRA" THEN "NV12"
    ELSE Parameters.BufferFormat

\* The device format that goes with it.
EffectiveNvBufferFormat(Parameters) ==
    IF EffectiveBufferFormat(Parameters) # Parameters.BufferFormat
    THEN "NV_ENC_BUFFER_FORMAT_NV12"
    ELSE ToNVFormat(Parameters.BufferFormat)

\* The rate-control and GOP fields both Initialize and Reconfigure overlay.
OverlayMutable(Config, Parameters) ==
    [Config EXCEPT
        !.rateControlMode = ToNVRateControl(Parameters.RateControlMode),
        !.averageBitRate = Parameters.TargetBitrate,
        !.maxBitRate = Parameters.MaxBitrate,
        !.enableLookahead = IF Parameters.bEnableLookahead THEN 1 ELSE 0,
        !.enableAQ = IF Parameters.bEnableAdaptiveQuantization THEN 1 ELSE 0,
        !.enableTemporalAQ = IF Parameters.bEnableAdaptiveQuantization THEN 1 ELSE 0,
        !.multiPass = ToNVMultiPass(Parameters.MultipassMode),
        !.gopLength = GopLengthOf(Parameters.GOPLength)]

\* EncodeConfig as Initialize derives it from the selected preset's configuration.
DeriveEncodeConfig(PresetCfg, Parameters, api) ==
    With(OverlayMutable([PresetCfg EXCEPT !.version = PatchStructVersion(NV_ENC_CONFIG_VER, api)],
                        Parameters),
         LAMBDA c1 :
    With([c1 EXCEPT
            !.enableInitialRCQP = IF Parameters.QPMax >= 0 \/ Parameters.QPMin >= 0 THEN 1 ELSE 0,
            !.qpInterB = IF Parameters.QPMax >= 0 THEN Parameters.QPMax ELSE c1.qpInterB,
            !.qpInterP = IF Parameters.QPMax >= 0 THEN Parameters.QPMax ELSE c1.qpInterP,
            !.qpIntra = IF Parameters.QPMin >= 0 THEN Parameters.QPMin ELSE c1.qpIntra,
            !.frameIntervalP = 1],
         LAMBDA c2 :
    With(ToNVBitDepth(EffectiveNvBufferFormat(Parameters)), LAMBDA NvBitDepth :
    With(GetChromaFormatIDC(EffectiveNvBufferFormat(Parameters)), LAMBDA NvChromaFormat :
       IF Parameters.Codec = "H264"
       THEN [c2 EXCEPT
                !.profileGUID = "NV_ENC_H264_PROFILE_MAIN_GUID",
                !.codecConfig = [c2.codecConfig EXCEPT
                                    !.member = "h264Config",
                                    !.idrPeriod = c2.gopLength,
                                    !.chromaFormatIDC = NvChromaFormat,
                                    !.inputBitDepth = NvBitDepth,
                                    !.outputBitDepth = NvBitDepth]]
       ELSE [c2 EXCEPT
                !.profileGUID = IF NvBitDepth = "NV_ENC_BIT_DEPTH_10"
                                THEN "NV_ENC_HEVC_PROFILE_MAIN10_GUID"
                                ELSE "NV_ENC_HEVC_PROFILE_MAIN_GUID",
                !.codecConfig = [member |-> "hevcConfig",
                                 level |-> "NV_ENC_LEVEL_AUTOSELECT",
                                 idrPeriod |-> c2.gopLength,
                                 chromaFormatIDC |-> NvChromaFormat,
                                 inputBitDepth |-> NvBitDepth,
                                 outputBitDepth |-> NvBitDepth]]))))

\* InitializeParams as Initialize fills it.
DeriveInitializeParams(CodecG, SelectedPreset, Parameters, NvFormat, api) ==
    [version |-> PatchStructVersion(NV_ENC_INITIALIZE_PARAMS_VER, api),
     encodeGUID |-> CodecG,
     presetGUID |-> SelectedPreset.Guid,
     tuningInfo |-> SelectedPreset.Tuning,
     encodeWidth |-> Parameters.Width, encodeHeight |-> Parameters.Height,
     darWidth |-> Parameters.Width, darHeight |-> Parameters.Height,
     frameRateNum |-> IF Parameters.Framerate = 0 THEN 60 ELSE Parameters.Framerate,
     frameRateDen |-> 1, enablePTD |-> 1,
     encodeConfig |-> "EncodeConfig",
     maxEncodeWidth |-> Parameters.Width, maxEncodeHeight |-> Parameters.Height,
     bufferFormat |-> NvFormat,
     enableEncodeAsync |-> 0]

\* A descriptor that records the head of the built-in ladder as realized.
RealizedParameters_RecordsHead(Parameters, SelectedPreset) ==
    [Parameters EXCEPT
        !.BufferFormat = EffectiveBufferFormat(Parameters),
        !.ActivePresetGuid = FromWindowsGuid(BuiltInCandidates[1].Guid),
        !.ActiveTuning = FromNVTuning(BuiltInCandidates[1].Tuning)]

\* CurrentParameters after a successful Initialize.
RealizedParameters(Parameters, SelectedPreset) ==
    [Parameters EXCEPT
        !.BufferFormat = EffectiveBufferFormat(Parameters),
        !.ActivePresetGuid = FromWindowsGuid(SelectedPreset.Guid),
        !.ActiveTuning = FromNVTuning(SelectedPreset.Tuning)]

\* The description set when no candidate was selected.
InitializeScanFailureMessage(LastPresetStatus) ==
    IF LastPresetStatus = NV_ENC_ERR_INVALID_ENCODERDEVICE
    THEN StatusMessage("NVENC runtime rejected the provided DirectX device", LastPresetStatus)
    ELSE StatusMessage("NvEncGetEncodePresetConfig failed for all attempted presets", LastPresetStatus)

\* Initialize from the candidate scan on.  env.dev answers the preset queries,
\* env.enum the runtime enumeration, env.initSt nvEncInitializeEncoder.
InitializeSelected(s, live, Parameters, env) ==
    With(ToWindowsGuid(CodecGuid(Parameters.Codec)), LAMBDA CodecG :
    With(EnumerateRuntimePresets(s, CodecG, PromoteRequested(BuiltInCandidates, Parameters),
                                 env.enum),
         LAMBDA e :
    With(InitializeScan(env.dev, s, CodecG, PresetConfigVersions(s.ApiVersion), e.candidates,
                        1, NV_ENC_SUCCESS),
         LAMBDA r :
       IF r[2] = 0
       THEN Outcome([s EXCEPT !.LastErrorMessage = InitializeScanFailureMessage(r[1])],
                    live, e.log \o r[3], FALSE)
       ELSE With(e.candidates[r[2]], LAMBDA SelectedPreset :
            With(EffectiveNvBufferFormat(Parameters), LAMBDA NvFormat :
            With(DeriveEncodeConfig(DevicePresetCfg, Parameters, s.ApiVersion), LAMBDA cfg :
            With(DeriveInitializeParams(CodecG, SelectedPreset, Parameters, NvFormat,
                                        s.ApiVersion),
                 LAMBDA ip :
            With([s EXCEPT !.EncodeConfig = cfg, !.NvBufferFormat = NvFormat,
                           !.InitializeParams = ip],
                 LAMBDA s1 :
            With(e.log \o r[3] \o
                 << Call("nvEncInitializeEncoder", s.Encoder, <<ip, cfg>>,
                         <<ip.version, cfg.version>>, env.initSt, << >>) >>,
                 LAMBDA log :
               IF env.initSt # NV_ENC_SUCCESS
               THEN Outcome([s1 EXCEPT !.LastErrorMessage =
                                StatusMessage("NvEncInitializeEncoder failed", env.initSt)],
                            live, log, FALSE)
               ELSE Outcome([s1 EXCEPT !.CurrentParameters =
                                            RealizedParameters(Parameters, SelectedPreset),
                                       !.bIsInitialised = TRUE],
                            live, log, TRUE))))))))))

DoInitialize(s, live, Parameters, env) ==
    With([s EXCEPT !.LastErrorMessage = NoError], LAMBDA s0 :
       IF ~s0.bIsOpen \/ s0.Encoder = NullEncoder
       THEN Outcome([s0 EXCEPT !.LastErrorMessage =
                        Message("Cannot initialise NVENC session - encoder is not open.")],
                    live, << >>, FALSE)
       ELSE IF "nvEncGetEncodePresetConfig" \notin s0.FunctionList
       THEN Outcome([s0 EXCEPT !.LastErrorMessage =
                        Message("Required NVENC export 'NvEncGetEncodePresetConfig' is missing.")],
                    live, << >>, FALSE)
       ELSE IF "nvEncInitializeEncoder" \notin s0.FunctionList
       THEN Outcome([s0 EXCEPT !.LastErrorMessage =
                        Message("Required NVENC export 'NvEncInitializeEncoder' is missing.")],
                    live, << >>, FALSE)
       ELSE InitializeSelected(s0, live, Parameters, env))

(***************************************************************************)
(* FNVENCSession::Reconfigure                                              *)
(***************************************************************************)
\* ReconfigureParams.reInitEncodeParams as Reconfigure fills it.
ReInitEncodeParams(s, Parameters) ==
    [s.InitializeParams EXCEPT
        !.version = PatchStructVersion(NV_ENC_INITIALIZE_PARAMS_VER, s.ApiVersion),
        !.encodeWidth = Parameters.Width, !.encodeHeight = Parameters.Height,
        !.darWidth = Parameters.Width, !.darHeight = Parameters.Height,
        !.encodeConfig = "NewConfig",
        !.maxEncodeWidth = Parameters.Width, !.maxEncodeHeight = Parameters.Height,
        !.bufferFormat = s.NvBufferFormat]

\* CurrentParameters after a successful Reconfigure.
ReconfiguredParameters(Previous, Parameters) ==
    [Parameters EXCEPT
        !.ActivePresetGuid = IF ~IsValidGuid(Parameters.ActivePresetGuid)
                             THEN Previous.ActivePresetGuid ELSE Parameters.ActivePresetGuid,
        !.ActiveTuning = IF Parameters.ActiveTuning = "Automatic"
                         THEN Previous.ActiveTuning ELSE Parameters.ActiveTuning]

\* A Reconfigure that stores the parameters before it checks the session.
DoReconfigure_StoresFirst(s, live, Parameters, reconfSt) ==
    Outcome([s EXCEPT !.CurrentParameters = Parameters,
                      !.LastErrorMessage =
                          Message("Cannot reconfigure NVENC session - encoder has not been initialised.")],
            live, << >>, FALSE)

\* A Reconfigure that writes the new configuration into the session before
\* the device has accepted it.
DoReconfigure_CommitsEarly(s, live, Parameters, reconfSt) ==
    IF ~s.bIsInitialised \/ "nvEncReconfigureEncoder" \notin s.FunctionList
    THEN Outcome([s EXCEPT !.LastErrorMessage = Message("Cannot reconfigure NVENC session.")],
                 live, << >>, FALSE)
    ELSE Outcome([s EXCEPT !.EncodeConfig = OverlayMutable(s.EncodeConfig, Parameters),
                           !.LastErrorMessage =
                               IF reconfSt # NV_ENC_SUCCESS
                               THEN StatusMessage("NvEncReconfigureEncoder failed", reconfSt)
                               ELSE NoError],
                 live,
                 << Call("nvEncReconfigureEncoder", s.Encoder, << >>, << >>, reconfSt, << >>) >>,
                 reconfSt = NV_ENC_SUCCESS)

\* reconfSt is the status nvEncReconfigureEncoder returns.
DoReconfigure(s, live, Parameters, reconfSt) ==
    LET s0 == [s EXCEPT !.LastErrorMessage = NoError]
    IN IF ~s0.bIsInitialised
       THEN Outcome([s0 EXCEPT !.LastErrorMessage =
                        Message("Cannot reconfigure NVENC session - encoder has not been initialised.")],
                    live, << >>, FALSE)
       ELSE IF "nvEncReconfigureEncoder" \notin s0.FunctionList
       THEN Outcome([s0 EXCEPT !.LastErrorMessage =
                        Message("Required NVENC export 'NvEncReconfigureEncoder' is missing.")],
                    live, << >>, FALSE)
       ELSE LET NewConfig == OverlayMutable(s0.EncodeConfig, Parameters)
                reInit == ReInitEncodeParams(s0, Parameters)
                c == Call("nvEncReconfigureEncoder", s0.Encoder,
                          [reInitEncodeParams |-> reInit, encodeConfig |-> NewConfig,
                           forceIDR |-> 1, resetEncoder |-> 1],
                          <<PatchStructVersion(NV_ENC_RECONFIGURE_PARAMS_VER, s0.ApiVersion),
                            reInit.version, NewConfig.version>>,
                          reconfSt, << >>)
            IN IF reconfSt # NV_ENC_SUCCESS
               THEN Outcome([s0 EXCEPT !.LastErrorMessage =
                                StatusMessage("NvEncReconfigureEncoder failed", reconfSt)],
                            live, <<c>>, FALSE)
               ELSE Outcome([s0 EXCEPT !.EncodeConfig = NewConfig,
                                       !.InitializeParams = reInit,
                                       !.CurrentParameters =
                                            ReconfiguredParameters(s0.CurrentParameters, Parameters)],
                            live, <<c>>, TRUE)

(***************************************************************************)
(* FNVENCSession::Flush                                                    *)
(***************************************************************************)
\* Whether the build compiles the drain call in.
UE_NVENC_HAS_FLUSH_FUNCTION == NVENCAPI_MAJOR_VERSION < 12

\* A Flush that drains whether or not the encoder is initialised.
DoFlush_Unguarded(s, live, flushSt) ==
    IF "nvEncFlushEncoderQueue" \in s.FunctionList
    THEN Outcome(s, live,
                 << Call("nvEncFlushEncoderQueue", s.Encoder, << >>, << >>, flushSt, << >>) >>,
                 "void")
    ELSE Outcome(s, live, << >>, "void")

\* flushSt is the status nvEncFlushEncoderQueue returns (it is only logged).
DoFlush(s, live, flushSt) ==
    IF ~s.bIsInitialised
    THEN Outcome(s, live, << >>, "void")
    ELSE IF UE_NVENC_HAS_FLUSH_FUNCTION /\ "nvEncFlushEncoderQueue" \in s.FunctionList
    THEN Outcome(s, live,
                 << Call("nvEncFlushEncoderQueue", s.Encoder, << >>, << >>, flushSt, << >>) >>,
                 "void")
    ELSE Outcome(s, live, << >>, "void")

(***************************************************************************)
(* FNVENCSession::GetSequenceParams                                        *)
(***************************************************************************)
\* The size of the buffer the first nvEncGetSequenceParams call is given.
SequenceBufferSize == 1024

Min(a, b) == IF a < b THEN a ELSE b

\* A GetSequenceParams that repeats the call on the buffer it started with.
DoGetSequenceParams_SameBuffer(s, live, seq) ==
    IF ~s.bIsInitialised \/ s.Encoder = NullEncoder \/ "nvEncGetSequenceParams" \notin s.FunctionList
    THEN [o |-> Outcome(s, live, << >>, FALSE), OutData |-> -1]
    ELSE LET ver == <<PatchStructVersion(NV_ENC_SEQUENCE_PARAM_PAYLOAD_VER, s.ApiVersion)>>
             c1 == Call("nvEncGetSequenceParams", s.Encoder, SequenceBufferSize, ver,
                        seq.st1, seq.size1)
             c2 == Call("nvEncGetSequenceParams", s.Encoder, SequenceBufferSize, ver,
                        seq.st2, seq.size2)
         IN IF seq.st1 # NV_ENC_SUCCESS \/ seq.size1 = 0
            THEN [o |-> Outcome(s, live, <<c1>>, FALSE), OutData |-> -1]
            ELSE IF seq.size1 > SequenceBufferSize
            THEN [o |-> Outcome(s, live, <<c1, c2>>, seq.st2 = NV_ENC_SUCCESS),
                  OutData |-> IF seq.st2 = NV_ENC_SUCCESS
                              THEN Min(seq.size2, SequenceBufferSize) ELSE -1]
            ELSE [o |-> Outcome(s, live, <<c1>>, TRUE), OutData |-> seq.size1]

\* seq.st1/seq.size1 are the status and payload size of the first call,
\* seq.st2/seq.size2 of the call on the resized buffer.  [o, OutData]: the
\* outcome, and the number of bytes handed back (-1: OutData not written).
DoGetSequenceParams(s, live, seq) ==
    IF ~s.bIsInitialised \/ s.Encoder = NullEncoder
    THEN [o |-> Outcome(s, live, << >>, FALSE), OutData |-> -1]
    ELSE IF "nvEncGetSequenceParams" \notin s.FunctionList
    THEN [o |-> Outcome(s, live, << >>, FALSE), OutData |-> -1]
    ELSE LET ver == <<PatchStructVersion(NV_ENC_SEQUENCE_PARAM_PAYLOAD_VER, s.ApiVersion)>>
             c1 == Call("nvEncGetSequenceParams", s.Encoder, SequenceBufferSize, ver,
                        seq.st1, seq.size1)
             c2 == Call("nvEncGetSequenceParams", s.Encoder, seq.size1, ver,
                        seq.st2, seq.size2)
         IN IF seq.st1 # NV_ENC_SUCCESS
            THEN [o |-> Outcome(s, live, <<c1>>, FALSE), OutData |-> -1]
            ELSE IF seq.size1 = 0
            THEN [o |-> Outcome(s, live, <<c1>>, FALSE), OutData |-> -1]
            ELSE IF seq.size1 > SequenceBufferSize
            THEN IF seq.st2 # NV_ENC_SUCCESS
                 THEN [o |-> Outcome(s, live, <<c1, c2>>, FALSE), OutData |-> -1]
                 ELSE [o |-> Outcome(s, live, <<c1, c2>>, TRUE),
                       OutData |-> Min(seq.size2, seq.size1)]
            ELSE [o |-> Outcome(s, live, <<c1>>, TRUE), OutData |-> seq.size1]

(***************************************************************************)
(* The environment: what the runtime library and the device may answer.    *)
(***************************************************************************)
\* The entry points NvEncodeAPICreateInstance can resolve.
FullTable ==
    {"nvEncOpenEncodeSessionEx", "nvEncGetEncodePresetConfig", "nvEncGetEncodePresetConfigEx",
     "nvEncGetEncodePresetGUIDs", "nvEncInitializeEncoder", "nvEncReconfigureEncoder",
     "nvEncFlushEncoderQueue", "nvEncGetSequenceParams", "nvEncDestroyEncoder"}

\* The full table, and the tables that lack one entry point.
Tables == {FullTable} \cup {FullTable \ {f} : f \in FullTable}

BuiltInPresetGuids ==
    {ToWindowsGuid(g) : g \in {PresetDefaultGuid, PresetLowLatencyHighQualityGuid, PresetP1Guid,
                               PresetP2Guid, PresetP3Guid, PresetP4Guid, PresetP5Guid,
                               PresetP6Guid, PresetP7Guid}}

\* A preset GUID only the runtime knows.
RuntimeOnlyGuid == ToWindowsGuid(FGuid(U32(1, 2), U32(3, 4), U32(5, 6), U32(7, 8)))

PresetDevice(accept, rej, nullRej, oddGuid, oddRej) ==
    [accept |-> accept, rej |-> rej, nullRej |-> nullRej, oddGuid |-> oddGuid, oddRej |-> oddRej]

\* A device that rejects every preset query with one status.
DeviceRejecting(Status) == PresetDevice({}, Status, Status, ToWindowsGuid(InvalidGuid), Status)

\* A device that accepts the plain query of every built-in preset on a handle.
DeviceAccepting ==
    PresetDevice({<<"enc", g, "base">> : g \in BuiltInPresetGuids},
           NV_ENC_ERR_UNSUPPORTED_PARAM, NV_ENC_ERR_INVALID_PARAM,
           ToWindowsGuid(InvalidGuid), NV_ENC_ERR_UNSUPPORTED_PARAM)

PresetDevices ==
    { DeviceAccepting,
      DeviceRejecting(NV_ENC_ERR_UNSUPPORTED_PARAM),
      DeviceRejecting(NV_ENC_ERR_INVALID_PARAM),
      DeviceRejecting(NV_ENC_ERR_INVALID_ENCODERDEVICE),
      DeviceRejecting(NV_ENC_ERR_OUT_OF_MEMORY),
      \* P3 only, and only through the extended query with the HIGH_QUALITY tuning
      PresetDevice({<<"enc", ToWindowsGuid(PresetP3Guid), "NV_ENC_TUNING_INFO_HIGH_QUALITY">>},
             NV_ENC_ERR_UNSUPPORTED_PARAM, NV_ENC_ERR_UNSUPPORTED_PARAM,
             ToWindowsGuid(InvalidGuid), NV_ENC_ERR_UNSUPPORTED_PARAM),
      \* the default preset only, and only without a handle
      PresetDevice({<<"null", ToWindowsGuid(PresetDefaultGuid), "base">>},
             NV_ENC_ERR_INVALID_PARAM, NV_ENC_ERR_INVALID_PARAM,
             ToWindowsGuid(InvalidGuid), NV_ENC_ERR_INVALID_PARAM),
      \* the runtime-only preset alone
      PresetDevice({<<"enc", RuntimeOnlyGuid, "base">>},
             NV_ENC_ERR_UNSUPPORTED_PARAM, NV_ENC_ERR_UNSUPPORTED_PARAM,
             ToWindowsGuid(InvalidGuid), NV_ENC_ERR_UNSUPPORTED_PARAM) }

\* What the library offers for NvEncodeAPIGetMaxSupportedVersion.
VersionAnswer(kind, st, raw) == [kind |-> kind, st |-> st, raw |-> raw]

\* The runtime reporting the compile-time version, in the modern packing.
SameVersion == VersionAnswer("call", NV_ENC_SUCCESS, NVENCAPI_VERSION)

VersionAnswers ==
    { SameVersion,
      VersionAnswer("nohandle", NV_ENC_SUCCESS, U32Zero),
      VersionAnswer("noexport", NV_ENC_SUCCESS, U32Zero),
      VersionAnswer("call", NV_ENC_ERR_INVALID_PTR, U32Zero),
      \* a failing query that wrote an older version
      VersionAnswer("call", NV_ENC_ERR_INVALID_PTR, U32(0, (NVENCAPI_MAJOR_VERSION - 1) * 16)),
      VersionAnswer("call", NV_ENC_SUCCESS, U32Zero),
      \* legacy packing: the previous major; the header's major, previous minor
      VersionAnswer("call", NV_ENC_SUCCESS, U32(0, (NVENCAPI_MAJOR_VERSION - 1) * 16)),
      VersionAnswer("call", NV_ENC_SUCCESS,
                    U32(0, NVENCAPI_MAJOR_VERSION * 16 + NVENCAPI_MINOR_VERSION - 1)),
      \* modern packing: the previous major, a later minor
      VersionAnswer("call", NV_ENC_SUCCESS,
                    EncodeApiVersion(FNVENCAPIVersion(NVENCAPI_MAJOR_VERSION - 1,
                                                      NVENCAPI_MINOR_VERSION + 1))),
      VersionAnswer("call", NV_ENC_SUCCESS, U32(0, 5)),        \* legacy 0.5
      VersionAnswer("call", NV_ENC_SUCCESS, U32(256, 0)),      \* modern 0.1
      \* newer than the header: modern, the next major; legacy, the next major
      VersionAnswer("call", NV_ENC_SUCCESS,
                    EncodeApiVersion(FNVENCAPIVersion(NVENCAPI_MAJOR_VERSION + 1, 1))),
      VersionAnswer("call", NV_ENC_SUCCESS, U32(0, (NVENCAPI_MAJOR_VERSION + 1) * 16)),
      VersionAnswer("call", NV_ENC_SUCCESS, U32(1, 0)) }       \* 0x00010000: decodes to 0.0

DeviceTypes == {NV_ENC_DEVICE_TYPE_DIRECTX, GetDirectX11DeviceType, NV_ENC_DEVICE_TYPE_CUDA}

\* The device's status for nvEncOpenEncodeSessionEx, per device type.
OpenAnswer(dx11, dx, cuda) ==
    [t \in DeviceTypes |-> IF t = GetDirectX11DeviceType THEN dx11
                           ELSE IF t = NV_ENC_DEVICE_TYPE_DIRECTX THEN dx ELSE cuda]

AllTypesAccepted == OpenAnswer(NV_ENC_SUCCESS, NV_ENC_SUCCESS, NV_ENC_SUCCESS)

OpenAnswers ==
    { AllTypesAccepted,
      OpenAnswer(NV_ENC_ERR_INVALID_PARAM, NV_ENC_SUCCESS, NV_ENC_ERR_NO_ENCODE_DEVICE),
      OpenAnswer(NV_ENC_SUCCESS, NV_ENC_ERR_INVALID_PARAM, NV_ENC_ERR_NO_ENCODE_DEVICE),
      OpenAnswer(NV_ENC_ERR_INVALID_PARAM, NV_ENC_ERR_UNSUPPORTED_PARAM, NV_ENC_ERR_NO_ENCODE_DEVICE) }

Environment(load, ver, hasCreateInstance, createSt, table, openSt, dev, destroySt) ==
    [load |-> load, ver |-> ver, hasCreateInstance |-> hasCreateInstance, createSt |-> createSt,
     table |-> table, openSt |-> openSt, dev |-> dev, destroySt |-> destroySt]

\* A runtime of the compile-time version where everything succeeds.
Nominal ==
    Environment(TRUE, SameVersion, TRUE, NV_ENC_SUCCESS, FullTable, AllTypesAccepted,
                DeviceAccepting, NV_ENC_SUCCESS)

\* A runtime one major version older than the header (legacy packing).
OlderRuntime ==
    VersionAnswer("call", NV_ENC_SUCCESS, U32(0, (NVENCAPI_MAJOR_VERSION - 1) * 16))

\* The environments of a session's life: the nominal one, an older runtime,
\* and the function tables that lack an entry point a session's life needs.
Environments ==
    {Nominal, [Nominal EXCEPT !.ver = OlderRuntime]}
    \cup {[Nominal EXCEPT !.table = FullTable \ {f}] :
            f \in FullTable \ {"nvEncGetEncodePresetConfigEx", "nvEncGetEncodePresetGUIDs"}}

\* The environments Open is probed with: the nominal one varied in one
\* respect, and the failures after a session is open crossed with what
\* decides how the session is then closed.
OpenEnvironments ==
    {[Nominal EXCEPT !.load = FALSE], [Nominal EXCEPT !.hasCreateInstance = FALSE],
     [Nominal EXCEPT !.createSt = NV_ENC_ERR_OUT_OF_MEMORY],
     [Nominal EXCEPT !.destroySt = NV_ENC_ERR_INVALID_PARAM]}
    \cup {[Nominal EXCEPT !.ver = v] : v \in VersionAnswers}
    \cup {[Nominal EXCEPT !.table = t] : t \in Tables}
    \cup {[Nominal EXCEPT !.openSt = a] : a \in OpenAnswers}
    \cup {[Nominal EXCEPT !.dev = d] : d \in PresetDevices}
    \cup {[Nominal EXCEPT !.dev = DeviceRejecting(NV_ENC_ERR_UNSUPPORTED_PARAM),
                          !.table = t, !.openSt = a, !.destroySt = st] :
            t \in {FullTable, FullTable \ {"nvEncDestroyEncoder"}},
            a \in OpenAnswers, st \in {NV_ENC_SUCCESS, NV_ENC_ERR_INVALID_PARAM}}

\* Parameter descriptors callers pass to Initialize and Reconfigure.
Parameters1 ==
    [DefaultParameters EXCEPT !.Width = 1280, !.Height = 720, !.Framerate = 30]

Parameters2 ==
    [DefaultParameters EXCEPT
        !.Codec = "HEVC", !.BufferFormat = "P010", !.Width = 3840, !.Height = 2160,
        !.Framerate = 0, !.TargetBitrate = 20000, !.MaxBitrate = 30000,
        !.QPMin = 18, !.QPMax = 32, !.RateControlMode = "VBR", !.MultipassMode = "FULL",
        !.GOPLength = 30, !.bEnableLookahead = TRUE, !.bEnableAdaptiveQuantization = TRUE,
        !.RequestedPreset = "P3", !.RequestedTuning = "LowLatency"]

Parameters3 ==
    [DefaultParameters EXCEPT
        !.BufferFormat = "BGRA", !.RateControlMode = "CONSTQP", !.GOPLength = 60,
        !.RequestedTuning = "Lossless",
        !.ActivePresetGuid = PresetP7Guid, !.ActiveTuning = "UltraLowLatency"]

ParameterSets == {Parameters1, Parameters2, Parameters3}

\* What nvEncGetEncodePresetGUIDs answers.
Enumeration(st1, guids, st2) == [st1 |-> st1, guids |-> guids, st2 |-> st2]

Enumerations ==
    { Enumeration(NV_ENC_SUCCESS, << >>, NV_ENC_SUCCESS),
      Enumeration(NV_ENC_ERR_INVALID_PARAM, << >>, NV_ENC_SUCCESS),
      Enumeration(NV_ENC_SUCCESS, <<ToWindowsGuid(PresetP4Guid), RuntimeOnlyGuid>>, NV_ENC_SUCCESS),
      Enumeration(NV_ENC_SUCCESS, <<RuntimeOnlyGuid>>, NV_ENC_ERR_INVALID_PARAM) }

InitializeEnvironment(dev, enum, initSt) == [dev |-> dev, enum |-> enum, initSt |-> initSt]

NominalInitialize ==
    InitializeEnvironment(DeviceAccepting, Enumeration(NV_ENC_SUCCESS, << >>, NV_ENC_SUCCESS),
                          NV_ENC_SUCCESS)

\* The environments Initialize is run in: the nominal one, a failing
\* nvEncInitializeEncoder, a rejecting device, a runtime with presets of its own.
InitializeEnvironments ==
    {NominalInitialize,
     [NominalInitialize EXCEPT !.initSt = NV_ENC_ERR_INVALID_PARAM],
     [NominalInitialize EXCEPT !.dev = DeviceRejecting(NV_ENC_ERR_UNSUPPORTED_PARAM)],
     [NominalInitialize EXCEPT !.enum = Enumeration(NV_ENC_SUCCESS,
                                    <<ToWindowsGuid(PresetP4Guid), RuntimeOnlyGuid>>, NV_ENC_SUCCESS)]}

\* What nvEncGetSequenceParams answers on the first and on the resized buffer.
SequenceAnswer(st1, size1, st2, size2) ==
    [st1 |-> st1, size1 |-> size1, st2 |-> st2, size2 |-> size2]

SequenceAnswers ==
    { SequenceAnswer(NV_ENC_SUCCESS, 64, NV_ENC_SUCCESS, 64),
      SequenceAnswer(NV_ENC_SUCCESS, 1024, NV_ENC_SUCCESS, 1024),
      SequenceAnswer(NV_ENC_SUCCESS, 0, NV_ENC_SUCCESS, 0),
      SequenceAnswer(NV_ENC_ERR_INVALID_PARAM, 0, NV_ENC_SUCCESS, 0),
      SequenceAnswer(NV_ENC_ERR_INVALID_PARAM, 64, NV_ENC_SUCCESS, 64),
      SequenceAnswer(NV_ENC_SUCCESS, 2048, NV_ENC_SUCCESS, 2048),
      SequenceAnswer(NV_ENC_SUCCESS, 2048, NV_ENC_SUCCESS, 1500),
      SequenceAnswer(NV_ENC_SUCCESS, 2048, NV_ENC_SUCCESS, 4096),
      SequenceAnswer(NV_ENC_SUCCESS, 2048, NV_ENC_SUCCESS, 0),
      SequenceAnswer(NV_ENC_ERR_INVALID_PARAM, 2048, NV_ENC_SUCCESS, 2048),
      SequenceAnswer(NV_ENC_SUCCESS, 2048, NV_ENC_ERR_OUT_OF_MEMORY, 2048) }

Codecs == {"H264", "HEVC"}
DeviceHandles == {NullDevice, "DeviceA", "DeviceB"}
Statuses == {NV_ENC_SUCCESS, NV_ENC_ERR_INVALID_PARAM}
FlushStatuses == {NV_ENC_SUCCESS, NV_ENC_ERR_NEED_MORE_INPUT, NV_ENC_ERR_INVALID_PARAM}

(***************************************************************************)
(* The session after construction, and its public methods.                 *)
(***************************************************************************)
Init ==
    /\ bIsOpen = FALSE
    /\ bIsInitialised = FALSE
    /\ Encoder = NullEncoder
    /\ Device = NullDevice
    /\ DeviceType = NV_ENC_DEVICE_TYPE_DIRECTX
    /\ ApiVersion = NVENCAPI_VERSION
    /\ FunctionList = {}
    /\ CurrentParameters = DefaultParameters
    /\ EncodeConfig = ZeroEncodeConfig
    /\ InitializeParams = ZeroInitializeParams
    /\ NvBufferFormat = "NV_ENC_BUFFER_FORMAT_UNDEFINED"
    /\ LastErrorMessage = NoError
    /\ deviceEncoders = {}
    /\ opened = 0
    /\ lastCall = [op |-> "Construct", args |-> << >>, ret |-> "void", out |-> << >>]
    /\ calls = << >>
    /\ Cache = {}

OpenArguments(Codec, InDevice, InDeviceType) ==
    [Codec |-> Codec, InDevice |-> InDevice, InDeviceType |-> InDeviceType]

NominalArguments == OpenArguments("H264", "DeviceA", NV_ENC_DEVICE_TYPE_DIRECTX)

\* The nominal arguments varied in one respect.
ArgumentSets ==
    {[NominalArguments EXCEPT !.Codec = c] : c \in Codecs}
    \cup {[NominalArguments EXCEPT !.InDevice = d] : d \in DeviceHandles}
    \cup {[NominalArguments EXCEPT !.InDeviceType = t] : t \in DeviceTypes}

\* The calls of Open: every argument set in the nominal environment, and the
\* nominal arguments with each of types in each of envs.
OpenInputs(envs, types) ==
    {<<a, Nominal>> : a \in ArgumentSets}
    \cup {<<[NominalArguments EXCEPT !.InDeviceType = t], e>> : t \in types, e \in envs}

\* Open(Codec, InDevice, InDeviceType).  The device opens MaxEncoders
\* encoder sessions in all.
OpenWith(inputs) ==
    /\ bIsOpen \/ opened < MaxEncoders
    /\ \E in \in inputs :
          \E r \in {DoOpen(Self, deviceEncoders, in[1].Codec, in[1].InDevice,
                          in[1].InDeviceType, in[2])} :
              Commit("Open", in[1], r.o, r.out)

\* The calls of Open in the session's life: a closed session is opened with the
\* nominal arguments in each environment, or with no device; an open session
\* is called with every argument set (Open returns before it reads any of them).
LifecycleInputs ==
    IF bIsOpen
    THEN {<<a, Nominal>> : a \in ArgumentSets}
    ELSE {<<[NominalArguments EXCEPT !.InDevice = NullDevice], Nominal>>}
         \cup {<<NominalArguments, e>> : e \in Environments}

Open == OpenWith(LifecycleInputs)

\* Open against every runtime and device answer.
OpenProbe == OpenWith(OpenInputs(OpenEnvironments, DeviceTypes))

\* The calls of ValidatePresetConfiguration: either codec on a device that
\* accepts, and H.264 with and without the null-handle retry on one that does not.
ValidationInputs ==
    {<<Codec, FALSE, DeviceAccepting>> : Codec \in Codecs}
    \cup {<<"H264", bAllowNullFallback, DeviceRejecting(NV_ENC_ERR_INVALID_ENCODERDEVICE)>> :
                bAllowNullFallback \in BOOLEAN}

ValidatePresetConfiguration ==
    \E in \in ValidationInputs :
        Commit("ValidatePresetConfiguration",
               [Codec |-> in[1], bAllowNullFallback |-> in[2]],
               DoValidatePresetConfiguration(Self, deviceEncoders, in[1], in[2], in[3]),
               << >>)

Initialize ==
    \E Parameters \in ParameterSets, env \in InitializeEnvironments :
        /\ env = NominalInitialize \/ Parameters = Parameters2
        /\ Commit("Initialize", Parameters,
                  DoInitialize(Self, deviceEncoders, Parameters, env), << >>)

Reconfigure ==
    \E Parameters \in ParameterSets, reconfSt \in Statuses :
        Commit("Reconfigure", Parameters,
               DoReconfigure(Self, deviceEncoders, Parameters, reconfSt), << >>)

Flush ==
    \E flushSt \in FlushStatuses :
        Commit("Flush", << >>, DoFlush(Self, deviceEncoders, flushSt), << >>)

Destroy ==
    \E destroySt \in Statuses :
        Commit("Destroy", << >>, DoDestroy(Self, deviceEncoders, destroySt), << >>)

GetSequenceParams ==
    \E seq \in SequenceAnswers :
        \E r \in {DoGetSequenceParams(Self, deviceEncoders, seq)} :
            Commit("GetSequenceParams", << >>, r.o, r.OutData)

Next ==
    \/ Open
    \/ ValidatePresetConfiguration
    \/ Initialize
    \/ Reconfigure
    \/ Flush
    \/ Destroy
    \/ GetSequenceParams

(***************************************************************************)
(* The preset scans probed: Open's validation and a first Initialize        *)
(* against devices that reject the first candidates one way or another.    *)
(***************************************************************************)
\* The statuses a device rejects a preset query with.
ScanStatuses ==
    {NV_ENC_ERR_INVALID_PARAM, NV_ENC_ERR_UNSUPPORTED_PARAM,
     NV_ENC_ERR_INVALID_ENCODERDEVICE, NV_ENC_ERR_OUT_OF_MEMORY}

\* A device that rejects the default preset with Status on a handle and with
\* NullStatus without one, rejects the low-latency-HQ preset with OddStatus,
\* and accepts the plain query of every other built-in preset on a handle.
DeviceRejectingFirst(Status, NullStatus, OddStatus) ==
    PresetDevice({<<"enc", g, "base">> :
                    g \in BuiltInPresetGuids \ {ToWindowsGuid(PresetDefaultGuid),
                                                ToWindowsGuid(PresetLowLatencyHighQualityGuid)}},
                 Status, NullStatus, ToWindowsGuid(PresetLowLatencyHighQualityGuid), OddStatus)

ScanDevices ==
    PresetDevices
    \cup {DeviceRejectingFirst(Status, NullStatus, OddStatus) :
            Status \in ScanStatuses,
            NullStatus \in {NV_ENC_ERR_INVALID_PARAM, NV_ENC_ERR_INVALID_ENCODERDEVICE},
            OddStatus \in ScanStatuses}

\* Either codec with each buffer format, and requests for a preset, a tuning, both.
ScanParameters ==
    {[Parameters1 EXCEPT !.Codec = Codec, !.BufferFormat = BufferFormat] :
        Codec \in Codecs, BufferFormat \in {"NV12", "P010", "BGRA"}}
    \cup {Parameters2, Parameters3,
          [Parameters1 EXCEPT !.RequestedPreset = "P7"],
          [Parameters1 EXCEPT !.RequestedPreset = "Default", !.RequestedTuning = "HighQuality"]}

\* The calls of Initialize probed: every descriptor on the nominal device, two
\* descriptors on every device, and the enumerations and a failing
\* nvEncInitializeEncoder.
ScanInitializeInputs ==
    {<<Parameters, NominalInitialize>> : Parameters \in ScanParameters}
    \cup {<<Parameters, [NominalInitialize EXCEPT !.dev = dev]>> :
            Parameters \in {Parameters1, Parameters2}, dev \in ScanDevices}
    \cup {<<Parameters2, env>> : env \in InitializeEnvironments}
    \cup {<<Parameters1, InitializeEnvironment(dev, enum, NV_ENC_SUCCESS)>> :
            dev \in {DeviceRejecting(NV_ENC_ERR_UNSUPPORTED_PARAM),
                     PresetDevice({<<"enc", RuntimeOnlyGuid, "base">>},
                                  NV_ENC_ERR_UNSUPPORTED_PARAM, NV_ENC_ERR_UNSUPPORTED_PARAM,
                                  ToWindowsGuid(InvalidGuid), NV_ENC_ERR_UNSUPPORTED_PARAM)},
            enum \in Enumerations}

\* Open on a closed session that no Initialize has configured yet, its
\* validation answered by each device, and with a function table that lacks
\* an optional entry point.
OpenForScan ==
    /\ ~bIsOpen
    /\ InitializeParams = ZeroInitializeParams
    /\ OpenWith({<<NominalArguments, [Nominal EXCEPT !.dev = dev]>> : dev \in ScanDevices}
                \cup {<<NominalArguments, [Nominal EXCEPT !.table = FullTable \ {f}]>> :
                        f \in {"nvEncGetEncodePresetConfigEx", "nvEncGetEncodePresetGUIDs"}})

\* A first Initialize of an open session.
InitializeProbe ==
    /\ bIsOpen /\ ~bIsInitialised
    /\ \E in \in ScanInitializeInputs :
          Commit("Initialize", in[1], DoInitialize(Self, deviceEncoders, in[1], in[2]), in[2])

\* ValidatePresetConfiguration on an open session before its Initialize, with
\* and without the null-handle retry.
ValidateProbe ==
    /\ bIsOpen /\ ~bIsInitialised
    /\ \E dev \in ScanDevices, bAllowNullFallback \in BOOLEAN :
          Commit("ValidatePresetConfiguration",
                 [Codec |-> "H264", bAllowNullFallback |-> bAllowNullFallback],
                 DoValidatePresetConfiguration(Self, deviceEncoders, "H264", bAllowNullFallback, dev),
                 dev)

NextScan ==
    \/ OpenForScan
    \/ InitializeProbe
    \/ ValidateProbe
    \/ Destroy

SpecScan == Init /\ [][NextScan]_vars

(***************************************************************************)
(* PatchStructVersion on its own: a token and an API version are drawn,    *)
(* the token is patched, and the result is patched again with the same     *)
(* version.  lastCall holds the arguments, the result, and (out) the token *)
(* first drawn.                                                            *)
(***************************************************************************)
\* Struct version tokens: the header's seven, and words with each flag
\* nibble, struct identifiers with low, high and all bits set, and low halves
\* from zero to all ones.
PatchTokens ==
    {NV_ENCODE_API_FUNCTION_LIST_VER, NV_ENC_OPEN_ENCODE_SESSION_EX_PARAMS_VER,
     NV_ENC_PRESET_CONFIG_VER, NV_ENC_CONFIG_VER, NV_ENC_INITIALIZE_PARAMS_VER,
     NV_ENC_RECONFIGURE_PARAMS_VER, NV_ENC_SEQUENCE_PARAM_PAYLOAD_VER}
    \cup {U32(Flags * 4096 + StructId, lo) :
            Flags \in {0, 7, 8, 15}, StructId \in {0, 1, 9, 255, 256, 4095},
            lo \in {0, 11, 65535}}

\* API versions: EncodeApiVersion of majors and minors from 0 to 255, and
\* words with bits set where an encoded version has none.
PatchVersions ==
    {EncodeApiVersion(FNVENCAPIVersion(major, minor)) :
        major \in {0, 1, 10, 11, 12, 255}, minor \in {0, 1, 2, 15, 16, 255}}
    \cup {U32(0, 4096), U32(1, 0), U32(255, 11), U32(65535, 65535)}

InitPatch ==
    /\ bIsOpen = FALSE
    /\ bIsInitialised = FALSE
    /\ Encoder = NullEncoder
    /\ Device = NullDevice
    /\ DeviceType = NV_ENC_DEVICE_TYPE_DIRECTX
    /\ ApiVersion = NVENCAPI_VERSION
    /\ FunctionList = {}
    /\ CurrentParameters = DefaultParameters
    /\ EncodeConfig = ZeroEncodeConfig
    /\ InitializeParams = ZeroInitializeParams
    /\ NvBufferFormat = "NV_ENC_BUFFER_FORMAT_UNDEFINED"
    /\ LastErrorMessage = NoError
    /\ deviceEncoders = {}
    /\ opened = 0
    /\ calls = << >>
    /\ Cache = {}
    /\ \E StructVersion \in PatchTokens, ApiVer \in PatchVersions :
          lastCall = [op |-> "Draw", args |-> <<StructVersion, ApiVer>>,
                      ret |-> StructVersion, out |-> StructVersion]

\* PatchStructVersion(token, v).
ApplyPatch ==
    /\ lastCall.op = "Draw"
    /\ lastCall' = [op |-> "PatchStructVersion", args |-> lastCall.args,
                    ret |-> PatchStructVersion(lastCall.args[1], lastCall.args[2]),
                    out |-> lastCall.out]
    /\ UNCHANGED <<bIsOpen, bIsInitialised, Encoder, Device, DeviceType, ApiVersion,
                   FunctionList, CurrentParameters, EncodeConfig, InitializeParams,
                   NvBufferFormat, LastErrorMessage, deviceEncoders, opened, calls, Cache>>

\* PatchStructVersion(PatchStructVersion(token, v), v).
Repatch ==
    /\ lastCall.op = "PatchStructVersion"
    /\ lastCall' = [op |-> "Repatch", args |-> <<lastCall.ret, lastCall.args[2]>>,
                    ret |-> PatchStructVersion(lastCall.ret, lastCall.args[2]),
                    out |-> lastCall.out]
    /\ UNCHANGED <<bIsOpen, bIsInitialised, Encoder, Device, DeviceType, ApiVersion,
                   FunctionList, CurrentParameters, EncodeConfig, InitializeParams,
                   NvBufferFormat, LastErrorMessage, deviceEncoders, opened, calls, Cache>>

NextPatch == ApplyPatch \/ Repatch

SpecPatch == InitPatch /\ [][NextPatch]_vars

(***************************************************************************)
(* The version utilities of FNVENCDefs on their own: three versions are    *)
(* drawn; the first is encoded and decoded again, as an encoded version    *)
(* and as what a runtime reports, and the three are compared.              *)
(***************************************************************************)
\* Versions with components at the ends and in the middle of 0..255.
VersionPairs ==
    {FNVENCAPIVersion(major, minor) :
        major \in {0, 1, NVENCAPI_MAJOR_VERSION, NVENCAPI_MAJOR_VERSION + 1, 255},
        minor \in {0, NVENCAPI_MINOR_VERSION, 15, 16, 255}}

InitVersion ==
    /\ bIsOpen = FALSE
    /\ bIsInitialised = FALSE
    /\ Encoder = NullEncoder
    /\ Device = NullDevice
    /\ DeviceType = NV_ENC_DEVICE_TYPE_DIRECTX
    /\ ApiVersion = NVENCAPI_VERSION
    /\ FunctionList = {}
    /\ CurrentParameters = DefaultParameters
    /\ EncodeConfig = ZeroEncodeConfig
    /\ InitializeParams = ZeroInitializeParams
    /\ NvBufferFormat = "NV_ENC_BUFFER_FORMAT_UNDEFINED"
    /\ LastErrorMessage = NoError
    /\ deviceEncoders = {}
    /\ opened = 0
    /\ calls = << >>
    /\ Cache = {}
    /\ \E a \in VersionPairs, b \in VersionPairs, c \in VersionPairs :
          lastCall = [op |-> "Draw", args |-> <<a, b, c>>, ret |-> << >>, out |-> << >>]

\* EncodeApiVersion of the first version, what DecodeApiVersion and
\* DecodeRuntimeVersion make of the encoded word, and what Open negotiates
\* when the runtime's version query succeeds with it.
EncodeAndDecode ==
    /\ lastCall.op = "Draw"
    /\ \E Encoded \in {EncodeApiVersion(lastCall.args[1])} :
          lastCall' = [op |-> "EncodeApiVersion", args |-> lastCall.args,
                       ret |-> [Encoded |-> Encoded,
                                Decoded |-> DecodeApiVersion(Encoded),
                                Runtime |-> DecodeRuntimeVersion(Encoded),
                                Negotiated |-> NegotiateApiVersion(
                                    VersionAnswer("call", NV_ENC_SUCCESS, Encoded)).version],
                       out |-> << >>]
    /\ UNCHANGED <<bIsOpen, bIsInitialised, Encoder, Device, DeviceType, ApiVersion,
                   FunctionList, CurrentParameters, EncodeConfig, InitializeParams,
                   NvBufferFormat, LastErrorMessage, deviceEncoders, opened, calls, Cache>>

\* IsVersionOlder on every ordered pair of the three versions: ret[i][j] is
\* IsVersionOlder(args[i], args[j]).
CompareVersions ==
    /\ lastCall.op = "Draw"
    /\ lastCall' = [op |-> "IsVersionOlder", args |-> lastCall.args,
                    ret |-> [i \in 1..3 |-> [j \in 1..3 |->
                                IsVersionOlder(lastCall.args[i], lastCall.args[j])]],
                    out |-> << >>]
    /\ UNCHANGED <<bIsOpen, bIsInitialised, Encoder, Device, DeviceType, ApiVersion,
                   FunctionList, CurrentParameters, EncodeConfig, InitializeParams,
                   NvBufferFormat, LastErrorMessage, deviceEncoders, opened, calls, Cache>>

NextVersion == EncodeAndDecode \/ CompareVersions

SpecVersion == InitVersion /\ [][NextVersion]_vars

(***************************************************************************)
(* The identifier registry on its own: any sequence of GuidFromComponents   *)
(* calls on the process-wide cache.                                        *)
(***************************************************************************)
\* The calls of one run.
MaxInterned == 3

\* The hit path stores the argument's components over the entry it returns.
GuidFromComponents_Overwrites(cache, A, B, C, D) ==
    LET Key == <<A, D>>
        Existing == {e \in cache : e.Key = Key}
        Added == [Key |-> Key, Guid |-> FGuid(A, B, C, D)]
    IN  IF Existing # {}
        THEN [Entry |-> CHOOSE e \in Existing : TRUE,
              Cache |-> (cache \ Existing) \cup {Added}]
        ELSE [Entry |-> Added, Cache |-> cache \cup {Added}]

\* The key is the first component alone.
GuidFromComponents_KeyOfA(cache, A, B, C, D) ==
    LET Key == <<A, U32Zero>>
        Existing == {e \in cache : e.Key = Key}
        Added == [Key |-> Key, Guid |-> FGuid(A, B, C, D)]
    IN  IF Existing # {}
        THEN [Entry |-> CHOOSE e \in Existing : TRUE, Cache |-> cache]
        ELSE [Entry |-> Added, Cache |-> cache \cup {Added}]

\* <<the entry returned, the cache afterwards>>.  The key holds A in its
\* upper and D in its lower 32 bits; an entry is found by key alone, and a
\* found entry is returned as it is.
GuidFromComponents(cache, A, B, C, D) ==
    LET Key == <<A, D>>
        Existing == {e \in cache : e.Key = Key}
        Added == [Key |-> Key, Guid |-> FGuid(A, B, C, D)]
    IN  IF Existing # {}
        THEN [Entry |-> CHOOSE e \in Existing : TRUE, Cache |-> cache]
        ELSE [Entry |-> Added, Cache |-> cache \cup {Added}]

\* The two codec identifiers and the default preset, as the literals of the
\* build without the vendor header; the all-zero identifier; and three
\* tuples that differ from the H.264 one in the middle components, in the
\* last component, and in the first.
GuidTuples ==
    {CodecGuid("H264"), CodecGuid("HEVC"), PresetDefaultGuid, InvalidGuid,
     FGuid(CodecGuid("H264").A, CodecGuid("HEVC").B, CodecGuid("HEVC").C, CodecGuid("H264").D),
     FGuid(CodecGuid("H264").A, CodecGuid("H264").B, CodecGuid("H264").C, CodecGuid("HEVC").D),
     FGuid(CodecGuid("HEVC").A, CodecGuid("H264").B, CodecGuid("H264").C, CodecGuid("H264").D)}

InitGuid ==
    /\ bIsOpen = FALSE
    /\ bIsInitialised = FALSE
    /\ Encoder = NullEncoder
    /\ Device = NullDevice
    /\ DeviceType = NV_ENC_DEVICE_TYPE_DIRECTX
    /\ ApiVersion = NVENCAPI_VERSION
    /\ FunctionList = {}
    /\ CurrentParameters = DefaultParameters
    /\ EncodeConfig = ZeroEncodeConfig
    /\ InitializeParams = ZeroInitializeParams
    /\ NvBufferFormat = "NV_ENC_BUFFER_FORMAT_UNDEFINED"
    /\ LastErrorMessage = NoError
    /\ deviceEncoders = {}
    /\ opened = 0
    /\ lastCall = [op |-> "Construct", args |-> << >>, ret |-> "void", out |-> << >>]
    /\ calls = << >>
    /\ Cache = {}

\* One call of GuidFromComponents: ret is the entry it returns.
InternGuid ==
    /\ Len(calls) < MaxInterned
    /\ \E t \in GuidTuples :
          \E r \in {GuidFromComponents(Cache, t.A, t.B, t.C, t.D)} :
             /\ Cache' = r.Cache
             /\ lastCall' = [op |-> "GuidFromComponents", args |-> <<t.A, t.B, t.C, t.D>>,
                             ret |-> r.Entry, out |-> << >>]
             /\ calls' = Append(calls, [fn |-> "GuidFromComponents", arg |-> t, out |-> r.Entry])
    /\ UNCHANGED <<bIsOpen, bIsInitialised, Encoder, Device, DeviceType, ApiVersion,
                   FunctionList, CurrentParameters, EncodeConfig, InitializeParams,
                   NvBufferFormat, LastErrorMessage, deviceEncoders, opened>>

NextGuid == InternGuid

SpecGuid == InitGuid /\ [][NextGuid]_vars

Spec == Init /\ [][Next]_vars

\* Open and Destroy alone, against every runtime and device answer.
NextOpen ==
    \/ OpenProbe
    \/ Destroy

SpecOpen == Init /\ [][NextOpen]_vars

(***************************************************************************)
(* Open: version negotiation.  Checked under SpecOpen.                     *)
(***************************************************************************)
\* The latest public call was an Open that loaded the runtime.
OpenRan == lastCall.op = "Open" /\ lastCall.out.loaded

\* ... and the runtime's max-version query was called and succeeded.
QuerySucceeded ==
    /\ OpenRan
    /\ lastCall.out.runtime.kind = "call"
    /\ lastCall.out.runtime.st = NV_ENC_SUCCESS

\* The runtime version as FNVENCDefs::DecodeRuntimeVersion decodes it.
RuntimeVersion == DecodeRuntimeVersion(lastCall.out.runtime.raw)

CompileTimeVersion == FNVENCAPIVersion(NVENCAPI_MAJOR_VERSION, NVENCAPI_MINOR_VERSION)

\* Lexicographic order on (major, minor), and the minimum under it.
LexOlder(a, b) == a.Major < b.Major \/ (a.Major = b.Major /\ a.Minor < b.Minor)
LexMin(a, b) == IF LexOlder(b, a) THEN b ELSE a

\* The Open failed before it asked for a function table or a session.
FailedUnopened ==
    /\ lastCall.ret = FALSE
    /\ ~bIsOpen /\ ~bIsInitialised /\ Encoder = NullEncoder
    /\ \A i \in 1..Len(calls) :
          calls[i].fn \notin {"NvEncodeAPICreateInstance", "nvEncOpenEncodeSessionEx"}

RequestsCarry(Version) ==
    \A i \in 1..Len(calls) :
        /\ calls[i].fn = "nvEncOpenEncodeSessionEx" => calls[i].arg[3] = EncodeApiVersion(Version)
        /\ calls[i].fn = "NvEncodeAPICreateInstance" =>
              calls[i].ver[1] = PatchStructVersion(NV_ENCODE_API_FUNCTION_LIST_VER,
                                                   EncodeApiVersion(Version))

OpenSessionCalls == SelectSeq(calls, LAMBDA c : c.fn = "nvEncOpenEncodeSessionEx")

\* The latest public call was an Open that attempted to open a session.
ScanRan == lastCall.op = "Open" /\ Len(OpenSessionCalls) > 0

LastOpenSessionCall == OpenSessionCalls[Len(OpenSessionCalls)]

\* The caller's device-type hint, the two DirectX tags, and a tag's alternate.
Hint == lastCall.args.InDeviceType
DirectXTags == {NV_ENC_DEVICE_TYPE_DIRECTX, GetDirectX11DeviceType}
OtherTag(t) ==
    IF t = NV_ENC_DEVICE_TYPE_DIRECTX THEN GetDirectX11DeviceType ELSE NV_ENC_DEVICE_TYPE_DIRECTX

\* The device types that stand for the hint's device family.
Family(t) == IF t \in DirectXTags THEN DirectXTags ELSE {t}

\* Whether the device, during the latest Open, accepts sessions of a device type.
Accepts(t) == lastCall.out.openSt[t] = NV_ENC_SUCCESS

\* Some preset query of the latest call succeeded: the validation passed.
PresetValidated ==
    \E i \in 1..Len(calls) :
        /\ calls[i].fn \in {"nvEncGetEncodePresetConfig", "nvEncGetEncodePresetConfigEx"}
        /\ calls[i].st = NV_ENC_SUCCESS

\* The scan stops at the first accepted candidate and records it; if every
\* candidate of the hint's family is rejected, Open fails with the last status.
ScanStopsAndRecords ==
    /\ \A i \in 1..Len(OpenSessionCalls) :
          OpenSessionCalls[i].st = NV_ENC_SUCCESS => i = Len(OpenSessionCalls)
    /\ LastOpenSessionCall.st = NV_ENC_SUCCESS => DeviceType = LastOpenSessionCall.arg[1]
    /\ (\A t \in Family(Hint) : ~Accepts(t)) =>
          /\ {OpenSessionCalls[i].arg[1] : i \in 1..Len(OpenSessionCalls)} = Family(Hint)
          /\ lastCall.ret = FALSE
          /\ ~bIsOpen /\ ~bIsInitialised /\ Encoder = NullEncoder
          /\ LastErrorMessage = << "NvEncOpenEncodeSessionEx failed",
                                   StatusToString(LastOpenSessionCall.st) >>

\* The hint is a DirectX tag the device rejects while it accepts the other.
OnlyOtherTagAccepted ==
    /\ ScanRan
    /\ Hint \in DirectXTags
    /\ ~Accepts(Hint)
    /\ Accepts(OtherTag(Hint))

C4_AsStated ==
    ScanRan =>
        /\ OpenSessionCalls[1].arg[1] = Hint
        /\ \A i \in 1..Len(OpenSessionCalls) :
              OpenSessionCalls[i].arg[1] # Hint =>
                  \E j \in 1..(i - 1) : /\ OpenSessionCalls[j].arg[1] = Hint
                                        /\ OpenSessionCalls[j].st # NV_ENC_SUCCESS
        /\ \A i, j \in 1..Len(OpenSessionCalls) :
              OpenSessionCalls[i].arg[1] = OpenSessionCalls[j].arg[1] => i = j

\* The latest Open opened a session and the validation after it failed.
OpenedThenInvalid ==
    /\ ScanRan
    /\ LastOpenSessionCall.st = NV_ENC_SUCCESS
    /\ ~PresetValidated

DestroyCalls == SelectSeq(calls, LAMBDA c : c.fn = "nvEncDestroyEncoder")

\* Open failed and left the session closed, with a description of the failure.
FailedClosedWithError ==
    /\ lastCall.ret = FALSE
    /\ ~bIsOpen
    /\ Encoder = NullEncoder
    /\ LastErrorMessage # NoError

\* The last invocation of the call destroyed the encoder the call had opened.
DestroyedNewEncoder ==
    /\ Len(DestroyCalls) = 1
    /\ calls[Len(calls)].fn = "nvEncDestroyEncoder"
    /\ calls[Len(calls)].enc = LastOpenSessionCall.out

\* C5 (amended): if the device accepts the open-session call but the preset
\* validation after it fails, Open invokes the destruction entry point on the
\* encoder it just opened if the function table holds that entry point (and
\* makes no destruction call otherwise), returns failure, and leaves the
\* session closed (open flag false, encoder handle null) with a non-empty
\* last-error description.
C5_InvalidSessionIsDestroyed ==
    OpenedThenInvalid =>
        /\ FailedClosedWithError
        /\ IF "nvEncDestroyEncoder" \in lastCall.out.table
           THEN DestroyedNewEncoder
           ELSE Len(DestroyCalls) = 0

\* C5 as stated: the destruction entry point is invoked in every such case.
C5_AsStated ==
    OpenedThenInvalid => (FailedClosedWithError /\ DestroyedNewEncoder)

\* An Open whose new encoder failed validation and was destroyed.
C5_Witness ==
    /\ OpenedThenInvalid
    /\ DestroyedNewEncoder
    /\ lastCall.ret = FALSE
    /\ LastOpenSessionCall.out \notin deviceEncoders

(***************************************************************************)
(* The session's life.  Checked under Spec; a step's method is the op of    *)
(* lastCall', the unprimed variables are the state it was called in.       *)
(***************************************************************************)
\* The state as text.  A step changes it exactly when it changes a variable;
\* comparing the text never compares the result of one method with the
\* result of another (a boolean with none, a record with a size).
state == ToString(vars)

\* C6: Open on a session that is already open returns success, invokes no
\* device entry point and leaves the encoder handle, the device handle, the
\* recorded device type, the API version, the initialised flag and the stored
\* parameters unchanged, whatever codec, device and device type are passed;
\* Open on a closed session with a null device handle returns failure and
\* leaves the session closed.
C6_OpenOnOpenSession ==
    [][ lastCall'.op = "Open" =>
          /\ bIsOpen =>
                /\ lastCall'.ret = TRUE
                /\ calls' = << >>
                /\ UNCHANGED <<bIsOpen, Encoder, Device, DeviceType, ApiVersion,
                               bIsInitialised, CurrentParameters>>
          /\ (~bIsOpen /\ lastCall'.args.InDevice = NullDevice) =>
                /\ lastCall'.ret = FALSE
                /\ calls' = << >>
                /\ ~bIsOpen' /\ ~bIsInitialised' /\ Encoder' = NullEncoder ]_state

\* Open was called on an initialised session with another codec, device and
\* device type than the session's, and returned success without a device call.
C6_Witness ==
    /\ lastCall.op = "Open"
    /\ lastCall.ret = TRUE
    /\ calls = << >>
    /\ bIsOpen /\ bIsInitialised
    /\ \/ lastCall.args.InDevice \notin {Device, NullDevice}
       \/ lastCall.args.InDeviceType \notin {DeviceType, NV_ENC_DEVICE_TYPE_DIRECTX}

\* The members of the session and the device's encoders.
session ==
    <<bIsOpen, bIsInitialised, Encoder, Device, DeviceType, ApiVersion, FunctionList,
      CurrentParameters, EncodeConfig, InitializeParams, NvBufferFormat, LastErrorMessage,
      deviceEncoders>>

\* C7: where the session is not initialised, Reconfigure and GetSequenceParams
\* return failure and Flush returns without effect; where it is not open,
\* Initialize returns failure; in all these cases no device entry point is
\* invoked and the open and initialised flags are unchanged.
C7_NotReadyFails ==
    [][ /\ (lastCall'.op \in {"Reconfigure", "GetSequenceParams"} /\ ~bIsInitialised) =>
              /\ lastCall'.ret = FALSE
              /\ calls' = << >>
              /\ UNCHANGED <<bIsOpen, bIsInitialised>>
        /\ (lastCall'.op = "Flush" /\ ~bIsInitialised) =>
              /\ calls' = << >>
              /\ UNCHANGED session
        /\ (lastCall'.op = "Initialize" /\ ~bIsOpen) =>
              /\ lastCall'.ret = FALSE
              /\ calls' = << >>
              /\ UNCHANGED <<bIsOpen, bIsInitialised>> ]_state

\* GetSequenceParams was called on an open session that is not initialised
\* and whose function table holds the entry point, and failed without calling it.
C7_Witness ==
    /\ lastCall.op = "GetSequenceParams"
    /\ lastCall.ret = FALSE
    /\ calls = << >>
    /\ bIsOpen /\ ~bIsInitialised
    /\ "nvEncGetSequenceParams" \in FunctionList

\* C8: Reconfigure in a state reached without a successful Initialize (closed,
\* open but not initialised, destroyed after initialisation) returns failure
\* and leaves the stored parameters, the stored encode configuration and the
\* initialise-parameters unchanged.
C8_ReconfigureBeforeInitialize ==
    [][ (lastCall'.op = "Reconfigure" /\ ~bIsInitialised) =>
            /\ lastCall'.ret = FALSE
            /\ UNCHANGED <<CurrentParameters, EncodeConfig, InitializeParams>> ]_state

\* Reconfigure failed on a session that was destroyed after an Initialize had
\* filled its encode configuration.
C8_Witness ==
    /\ lastCall.op = "Reconfigure"
    /\ lastCall.ret = FALSE
    /\ ~bIsOpen /\ ~bIsInitialised
    /\ EncodeConfig # ZeroEncodeConfig
    /\ CurrentParameters = DefaultParameters
    /\ lastCall.args # CurrentParameters

\* C9: when Reconfigure fails on an initialised session (the entry point is
\* missing, or the device call returns a non-success status), the stored
\* encode configuration, the stored initialise-parameters, the realized
\* parameters and the flags are what they were before the call; only the
\* last-error string changes.
C9_FailedReconfigureKeepsState ==
    [][ (lastCall'.op = "Reconfigure" /\ bIsInitialised) =>
            /\ lastCall'.ret = FALSE <=>
                  \/ "nvEncReconfigureEncoder" \notin FunctionList
                  \/ (Len(calls') = 1 /\ calls'[1].st # NV_ENC_SUCCESS)
            /\ lastCall'.ret = FALSE =>
                  /\ UNCHANGED <<EncodeConfig, InitializeParams, CurrentParameters,
                                 bIsOpen, bIsInitialised, Encoder, Device, DeviceType,
                                 ApiVersion, FunctionList, NvBufferFormat, deviceEncoders>>
                  /\ LastErrorMessage' # NoError ]_state

\* The device refused a Reconfigure with parameters other than the stored ones.
C9_Witness ==
    /\ lastCall.op = "Reconfigure"
    /\ lastCall.ret = FALSE
    /\ bIsInitialised
    /\ Len(calls) = 1 /\ calls[1].st # NV_ENC_SUCCESS
    /\ lastCall.args.Codec # CurrentParameters.Codec
    /\ lastCall.args.TargetBitrate # CurrentParameters.TargetBitrate

\* C10: after Destroy on an open session, whatever the destruction call
\* returns and whether or not the session was initialised, the session is in
\* the closed baseline: both flags false, encoder and device handle null,
\* function table empty, stored parameters those of a default-constructed
\* descriptor (no realized preset or tuning), API version the compile-time one.
C10_DestroyResets ==
    [][ (lastCall'.op = "Destroy" /\ bIsOpen) =>
            /\ ~bIsOpen' /\ ~bIsInitialised'
            /\ Encoder' = NullEncoder /\ Device' = NullDevice
            /\ FunctionList' = {}
            /\ CurrentParameters' = DefaultParameters
            /\ ~IsValidGuid(CurrentParameters'.ActivePresetGuid)
            /\ CurrentParameters'.ActiveTuning = "Automatic"
            /\ ApiVersion' = EncodeApiVersion(CompileTimeVersion) ]_state

\* Destroy closed a session whose device call failed, after an Initialize.
C10_Witness ==
    /\ lastCall.op = "Destroy"
    /\ Len(calls) = 1 /\ calls[1].st # NV_ENC_SUCCESS
    /\ ~bIsOpen
    /\ InitializeParams # ZeroInitializeParams
    /\ InitializeParams.version # PatchStructVersion(NV_ENC_INITIALIZE_PARAMS_VER, ApiVersion)

\* C11: a Destroy called directly after a Destroy invokes no device entry
\* point (the encoder is not destroyed a second time) and leaves every member
\* of the session, and the device's encoders, as the first call left them.
C11_DestroyTwice ==
    [][ (lastCall.op = "Destroy" /\ lastCall'.op = "Destroy") =>
            /\ calls' = << >>
            /\ UNCHANGED session ]_state

\* Destroy was called on a closed session that an earlier Destroy had closed
\* after an Initialize, releasing its encoder; nothing was invoked.
C11_Witness ==
    /\ lastCall.op = "Destroy"
    /\ calls = << >>
    /\ ~bIsOpen /\ Encoder = NullEncoder
    /\ EncodeConfig # ZeroEncodeConfig
    /\ deviceEncoders = {} /\ opened > 0

\* The stored parameters name no realized preset and no realized tuning.
RealizedUnset ==
    /\ ~IsValidGuid(CurrentParameters.ActivePresetGuid)
    /\ CurrentParameters.ActiveTuning = "Automatic"

PresetQueries(log) ==
    SelectSeq(log, LAMBDA c : c.fn \in {"nvEncGetEncodePresetConfig",
                                        "nvEncGetEncodePresetConfigEx"})

InitializeEncoderCalls(log) == SelectSeq(log, LAMBDA c : c.fn = "nvEncInitializeEncoder")

\* The step is an Initialize of an open session whose table holds the two
\* entry points Initialize requires.
InitializeRuns ==
    /\ lastCall'.op = "Initialize"
    /\ bIsOpen /\ Encoder # NullEncoder
    /\ {"nvEncGetEncodePresetConfig", "nvEncInitializeEncoder"} \subseteq FunctionList

\* C12: when the caller requests a preset, the first preset-configuration
\* query of Initialize is for that preset; and when a query for it succeeds
\* (as it does whenever the device accepts its plain query on the encoder)
\* and the device initialization call succeeds, Initialize returns success,
\* passes the requested preset to the device and records it as the realized
\* preset.
C12_RequestedPresetFirst ==
    [][ (InitializeRuns /\ PresetEnumToGuid(lastCall'.args.RequestedPreset)[1]) =>
          LET Requested == PresetEnumToGuid(lastCall'.args.RequestedPreset)[2]
              Queries == PresetQueries(calls')
              Inits == InitializeEncoderCalls(calls')
              Accepted == \E i \in 1..Len(Queries) :
                              Queries[i].arg[2] = Requested /\ Queries[i].st = NV_ENC_SUCCESS
          IN /\ Queries # << >> /\ Queries[1].arg[2] = Requested
             /\ DevQuery(lastCall'.out.dev, Encoder, Requested, "base") = NV_ENC_SUCCESS
                   => Accepted
             /\ (Accepted /\ lastCall'.out.initSt = NV_ENC_SUCCESS) =>
                   /\ lastCall'.ret = TRUE
                   /\ bIsInitialised'
                   /\ Len(Inits) = 1 /\ Inits[1].arg[1].presetGUID = Requested
                   /\ CurrentParameters'.ActivePresetGuid = FromWindowsGuid(Requested) ]_state

\* Initialize succeeded with the requested preset P3 on a device that would
\* also have accepted the default preset, the head of the built-in ladder.
C12_Witness ==
    /\ lastCall.op = "Initialize"
    /\ lastCall.ret = TRUE
    /\ lastCall.args.RequestedPreset = "P3"
    /\ CurrentParameters.ActivePresetGuid = PresetP3Guid
    /\ PresetQueries(calls)[1].arg[2] = ToWindowsGuid(PresetP3Guid)
    /\ DevQuery(lastCall.out.dev, Encoder, ToWindowsGuid(PresetDefaultGuid), "base")
          = NV_ENC_SUCCESS

\* C13: whenever Initialize gets as far as the device initialization call, a
\* buffer format other than NV12 for H.264, and BGRA for HEVC, is replaced by
\* NV12 in the format passed to the device and, on success, in the realized
\* descriptor, which then differs from the request; every other format is
\* passed and recorded as requested; and the call's result is the device's
\* answer whatever the format.
C13_IncompatibleFormatReplaced ==
    [][ (InitializeRuns /\ InitializeEncoderCalls(calls') # << >>) =>
          LET Requested == lastCall'.args
              Replaced == \/ Requested.Codec = "H264" /\ Requested.BufferFormat # "NV12"
                          \/ Requested.Codec = "HEVC" /\ Requested.BufferFormat = "BGRA"
              Expected == IF Replaced THEN "NV12" ELSE Requested.BufferFormat
              DeviceFormat == CASE Expected = "NV12" -> "NV_ENC_BUFFER_FORMAT_NV12"
                                [] Expected = "P010" -> "NV_ENC_BUFFER_FORMAT_YUV420_10BIT"
                                [] Expected = "BGRA" -> "NV_ENC_BUFFER_FORMAT_ARGB"
              Passed == InitializeEncoderCalls(calls')[1]
          IN /\ Passed.arg[1].bufferFormat = DeviceFormat
             /\ NvBufferFormat' = DeviceFormat
             /\ lastCall'.ret = (Passed.st = NV_ENC_SUCCESS)
             /\ lastCall'.ret = TRUE =>
                   /\ CurrentParameters'.BufferFormat = Expected
                   /\ Replaced <=> CurrentParameters'.BufferFormat # Requested.BufferFormat ]_state

\* Initialize succeeded for HEVC with the BGRA format requested: the device
\* was passed NV12 and the realized descriptor holds NV12.
C13_Witness ==
    /\ lastCall.op = "Initialize"
    /\ lastCall.ret = TRUE
    /\ lastCall.args.Codec = "HEVC" /\ lastCall.args.BufferFormat = "BGRA"
    /\ CurrentParameters.BufferFormat = "NV12"
    /\ InitializeParams.bufferFormat = "NV_ENC_BUFFER_FORMAT_NV12"

\* The presets a sequence of preset queries is for, in order, each once per
\* run of consecutive queries for it.
QueriedPresets(Queries) ==
    LET Starts == SelectSeq([i \in 1..Len(Queries) |-> i],
                            LAMBDA i : i = 1 \/ Queries[i].arg[2] # Queries[i - 1].arg[2])
    IN [j \in 1..Len(Starts) |-> Queries[Starts[j]].arg[2]]

\* The candidate list of the Initialize step: the built-in ladder with the
\* request applied and the runtime's presets appended.
StepCandidates ==
    EnumerateRuntimePresets(Self, ToWindowsGuid(CodecGuid(lastCall'.args.Codec)),
                            PromoteRequested(BuiltInCandidates, lastCall'.args),
                            lastCall'.out.enum).candidates

\* C15: Initialize queries the candidates in list order and stops at the
\* first query that succeeds: the presets queried are an initial stretch of
\* the candidate list, no query follows a successful one, so every candidate
\* before the selected one was queried and failed and none after it is
\* queried; the selected candidate's identifier is the preset passed to the
\* device initialization call and, on success, the realized preset; without
\* a successful query the device initialization call is not made.
C15_FirstAcceptedSelected ==
    [][ InitializeRuns =>
          \E Queries \in {PresetQueries(calls')}, Candidates \in {StepCandidates} :
          \E Queried \in {QueriedPresets(Queries)}, Inits \in {InitializeEncoderCalls(calls')} :
          \E k \in {Len(Queried)} :
             /\ 1 <= k /\ k <= Len(Candidates)
             /\ \A j \in 1..k : Queried[j] = Candidates[j].Guid
             /\ \A i \in 1..Len(Queries) : Queries[i].st = NV_ENC_SUCCESS => i = Len(Queries)
             /\ IF Queries[Len(Queries)].st = NV_ENC_SUCCESS
                THEN /\ Len(Inits) = 1
                     /\ Inits[1].arg[1].presetGUID = Candidates[k].Guid
                     /\ InitializeParams'.presetGUID = Candidates[k].Guid
                     /\ lastCall'.ret = TRUE =>
                           CurrentParameters'.ActivePresetGuid =
                               FromWindowsGuid(Candidates[k].Guid)
                ELSE Inits = << >> /\ lastCall'.ret = FALSE ]_state

\* Initialize succeeded with the third candidate, P1, after the queries of
\* the default and the low-latency-HQ preset had failed.
C15_Witness ==
    /\ lastCall.op = "Initialize"
    /\ lastCall.ret = TRUE
    /\ Len(QueriedPresets(PresetQueries(calls))) = 3
    /\ CurrentParameters.ActivePresetGuid = PresetP1Guid
    /\ InitializeParams.presetGUID = ToWindowsGuid(PresetP1Guid)

\* The latest call is an Initialize that returned success after selecting its
\* preset through the extended query, the one that passes a tuning.
SelectedThroughLadder ==
    /\ lastCall.op = "Initialize"
    /\ lastCall.ret = TRUE
    /\ PresetQueries(calls)[Len(PresetQueries(calls))].fn = "nvEncGetEncodePresetConfigEx"

\* C16: after a successful Initialize whose selected preset was accepted by an
\* extended query, the tuning passed to the device initialization call and
\* the realized tuning are the tuning that query carried.
C16_AsStated ==
    SelectedThroughLadder =>
        LET Accepted == PresetQueries(calls)[Len(PresetQueries(calls))]
        IN /\ InitializeParams.tuningInfo = Accepted.arg[3]
           /\ CurrentParameters.ActiveTuning = FromNVTuning(Accepted.arg[3])

\* The step runs a preset scan: an Initialize, a ValidatePresetConfiguration,
\* or an Open that got as far as its validation.
ScanRuns ==
    /\ lastCall'.op \in {"Initialize", "ValidatePresetConfiguration", "Open"}
    /\ PresetQueries(calls') # << >>

\* The presets of the step's candidate list, in order.
StepPresets ==
    IF lastCall'.op = "Initialize"
    THEN [j \in 1..Len(StepCandidates) |-> StepCandidates[j].Guid]
    ELSE [j \in 1..Len(ValidationPresets) |-> ValidationPresets[j].Guid]

\* The indices at which a candidate's queries end: a query's status there is
\* the status the candidate ended with.
LastOfCandidate(Queries) ==
    {i \in 1..Len(Queries) : i = Len(Queries) \/ Queries[i + 1].arg[2] # Queries[i].arg[2]}

SoftStatuses == {NV_ENC_ERR_INVALID_PARAM, NV_ENC_ERR_UNSUPPORTED_PARAM}

\* C17: in the validation scan and in Initialize's scan the candidates are
\* queried in list order, and a candidate that ends with invalid-parameter or
\* unsupported-parameter is followed by the queries of the next candidate
\* whenever it is not the last of the list; only the last candidate ending so
\* ends the scan, and the call then returns failure.
C17_SoftFailureContinues ==
    [][ ScanRuns =>
          \E Queries \in {PresetQueries(calls')}, Presets \in {StepPresets} :
          \E Queried \in {QueriedPresets(Queries)} :
             /\ Len(Queried) <= Len(Presets)
             /\ \A j \in 1..Len(Queried) : Queried[j] = Presets[j]
             /\ \A i \in LastOfCandidate(Queries) :
                   Queries[i].st \in SoftStatuses =>
                      IF Queries[i].arg[2] # Presets[Len(Presets)]
                      THEN i < Len(Queries)
                      ELSE i = Len(Queries) /\ lastCall'.ret = FALSE ]_state

\* Open's validation went past the default preset, rejected as an invalid
\* parameter, and the low-latency-HQ preset, rejected as unsupported, and
\* passed on the third candidate.
C17_Witness ==
    /\ lastCall.op = "Open"
    /\ lastCall.ret = TRUE
    /\ Len(QueriedPresets(PresetQueries(calls))) = 3
    /\ \E i, j \in 1..Len(PresetQueries(calls)) :
          /\ i < j
          /\ PresetQueries(calls)[i].st = NV_ENC_ERR_INVALID_PARAM
          /\ PresetQueries(calls)[j].st = NV_ENC_ERR_UNSUPPORTED_PARAM

\* The latest call ran a preset scan.
PresetScanRan ==
    /\ lastCall.op \in {"Initialize", "ValidatePresetConfiguration", "Open"}
    /\ PresetQueries(calls) # << >>

\* The statuses the scans treat neither as success nor as a failure of the
\* candidate alone, according to the specification.
HardStatus(Status) ==
    Status \notin {NV_ENC_SUCCESS, NV_ENC_ERR_INVALID_PARAM, NV_ENC_ERR_UNSUPPORTED_PARAM,
                   NV_ENC_ERR_INVALID_ENCODERDEVICE}

\* C18: in the validation scan and in Initialize's scan, a candidate that ends
\* with a status other than success, invalid-parameter, unsupported-parameter
\* and invalid-encoder-device is the last one queried, and the call returns
\* failure with that status in its error description.
C18_AsStated ==
    PresetScanRan =>
        \A i \in LastOfCandidate(PresetQueries(calls)) :
            HardStatus(PresetQueries(calls)[i].st) =>
                /\ i = Len(PresetQueries(calls))
                /\ lastCall.ret = FALSE
                /\ LastErrorMessage # NoError
                /\ LastErrorMessage[Len(LastErrorMessage)] =
                      StatusToString(PresetQueries(calls)[i].st)

\* C19: in the validation Open runs, a candidate that ends with
\* invalid-encoder-device is the last one queried, and Open returns failure
\* with the device-rejected description.
C19_AsStated ==
    (lastCall.op = "Open" /\ PresetQueries(calls) # << >>) =>
        \A i \in LastOfCandidate(PresetQueries(calls)) :
            PresetQueries(calls)[i].st = NV_ENC_ERR_INVALID_ENCODERDEVICE =>
                /\ i = Len(PresetQueries(calls))
                /\ lastCall.ret = FALSE
                /\ LastErrorMessage =
                      ValidationFailureMessage(NV_ENC_ERR_INVALID_ENCODERDEVICE)

\* C20: in Initialize's scan, a candidate that ends with
\* invalid-encoder-device (the retry without a handle included) while
\* candidates remain (fewer were queried than the built-in ladder holds) is
\* followed by the queries of the next candidate.
C20_AsStated ==
    (lastCall.op = "Initialize" /\ PresetQueries(calls) # << >>) =>
        \A i \in LastOfCandidate(PresetQueries(calls)) :
            ( /\ PresetQueries(calls)[i].st = NV_ENC_ERR_INVALID_ENCODERDEVICE
              /\ Len(QueriedPresets(PresetQueries(calls))) < Len(BuiltInCandidates) )
            => i < Len(PresetQueries(calls))

(***************************************************************************)
(* The tuning ladder.  A query of one candidate against one handle is a    *)
(* plain query and the extended queries that follow it.                    *)
(***************************************************************************)
\* The indices of the plain queries among a scan's preset queries.
PlainQueries(Queries) ==
    {i \in 1..Len(Queries) : Queries[i].fn = "nvEncGetEncodePresetConfig"}

\* The tunings of the extended queries that follow the plain query at i, up to
\* the next plain query, in order.
TuningsTried(Queries, i) ==
    LET End == CHOOSE k \in i..Len(Queries) :
                   /\ \A m \in (i + 1)..k : Queries[m].fn = "nvEncGetEncodePresetConfigEx"
                   /\ k = Len(Queries) \/ Queries[k + 1].fn # "nvEncGetEncodePresetConfigEx"
    IN [m \in 1..(End - i) |-> Queries[i + m].arg[3]]

\* The fallback ladder as the specification orders it.
FallbackLadder ==
    <<"NV_ENC_TUNING_INFO_UNDEFINED", "NV_ENC_TUNING_INFO_LOW_LATENCY",
      "NV_ENC_TUNING_INFO_HIGH_QUALITY", "NV_ENC_TUNING_INFO_ULTRA_LOW_LATENCY",
      "NV_ENC_TUNING_INFO_LOSSLESS">>

IsPrefix(a, b) == Len(a) <= Len(b) /\ \A i \in 1..Len(a) : a[i] = b[i]

\* C21: in the validation scan and in Initialize's scan, the tunings passed to
\* the extended query for one candidate and handle are the candidate's
\* preferred tuning followed by undefined, low-latency, high-quality,
\* ultra-low-latency, lossless in that order (the preferred one left out), as
\* far as the first tuning the device accepts.
C21_AsStated ==
    PresetScanRan =>
        \A i \in PlainQueries(PresetQueries(calls)) :
            \E Tried \in {TuningsTried(PresetQueries(calls), i)} :
                Tried # << >> =>
                    IsPrefix(Tried, <<Tried[1]>> \o SelectSeq(FallbackLadder,
                                                          LAMBDA t : t # Tried[1]))

\* C22: in the validation scan and in Initialize's scan, the extended queries
\* for one candidate and handle pass no tuning twice, so there are at most
\* five of them.
C22_AsStated ==
    PresetScanRan =>
        \A i \in PlainQueries(PresetQueries(calls)) :
            \E Tried \in {TuningsTried(PresetQueries(calls), i)} :
                /\ \A m, n \in 1..Len(Tried) : Tried[m] = Tried[n] => m = n
                /\ Len(Tried) <= 5

(***************************************************************************)
(* The candidate list of Initialize.                                       *)
(***************************************************************************)
\* The identifiers of a candidate list, in order.
Guids(Candidates) == [j \in 1..Len(Candidates) |-> Candidates[j].Guid]

\* C23: when Initialize is called with a requested preset of the built-in
\* ladder, the candidate list starts with it, the other built-in presets
\* follow in the order of the ladder, no identifier occurs twice, and the
\* presets the runtime enumerates come after the built-in ones.
C23_AsStated ==
    [][ (InitializeRuns /\ PresetEnumToGuid(lastCall'.args.RequestedPreset)[1]) =>
          \E List \in {Guids(StepCandidates)}, BuiltIn \in {Guids(BuiltInCandidates)},
             Requested \in {PresetEnumToGuid(lastCall'.args.RequestedPreset)[2]} :
             /\ List[1] = Requested
             /\ SubSeq(List, 2, Len(BuiltIn)) = SelectSeq(BuiltIn, LAMBDA g : g # Requested)
             /\ \A m, n \in 1..Len(List) : List[m] = List[n] => m = n
             /\ \A m \in (Len(BuiltIn) + 1)..Len(List) :
                   \A n \in 1..Len(BuiltIn) : List[m] # BuiltIn[n] ]_state

(***************************************************************************)
(* GetSequenceParams.  Checked under Spec; the invocations of the call are *)
(* in calls, each with the buffer size passed (arg), the status and the    *)
(* payload size the device reported (out).                                 *)
(***************************************************************************)
\* The latest call is a GetSequenceParams that got as far as the device: the
\* call leaves the session as it was, so the session was initialised with the
\* extraction entry point resolved.
SequenceParamsRan ==
    /\ lastCall.op = "GetSequenceParams"
    /\ bIsInitialised /\ Encoder # NullEncoder
    /\ "nvEncGetSequenceParams" \in FunctionList

C25_AsStated ==
    (SequenceParamsRan /\ lastCall.ret = TRUE) =>
        /\ lastCall.out = calls[1].out
        /\ lastCall.out > 0
        /\ lastCall.out <= calls[Len(calls)].arg

(***************************************************************************)
(* The last-error description.  Checked under Spec.                        *)
(***************************************************************************)
\* C26: after a call of Open, ValidatePresetConfiguration, Initialize,
\* Reconfigure or GetSequenceParams that returned failure, whatever the
\* session's state and history, the last-error description is not empty (the
\* failing call has set one).
C26_AsStated ==
    ( /\ lastCall.op \in {"Open", "ValidatePresetConfiguration", "Initialize",
                          "Reconfigure", "GetSequenceParams"}
      /\ lastCall.ret = FALSE )
    => LastErrorMessage # NoError

\* C27: after a call of Open, Initialize, Reconfigure or GetSequenceParams
\* that returned success the last-error description is empty, whatever failed
\* before it: every operation clears the description when it starts and sets
\* it only when it fails.
C27_AsStated ==
    ( /\ lastCall.op \in {"Open", "Initialize", "Reconfigure", "GetSequenceParams"}
      /\ lastCall.ret = TRUE )
    => LastErrorMessage = NoError

(***************************************************************************)
(* Struct version tokens.  Checked under Spec.                             *)
(***************************************************************************)
\* The version tokens the structs of an entry point's arguments are to carry
\* under the API version api, outermost struct first; no token for an entry
\* point that takes no versioned struct.
PatchedTokens(fn, api) ==
    CASE fn = "NvEncodeAPICreateInstance" ->
            <<PatchStructVersion(NV_ENCODE_API_FUNCTION_LIST_VER, api)>>
      [] fn = "nvEncOpenEncodeSessionEx" ->
            <<PatchStructVersion(NV_ENC_OPEN_ENCODE_SESSION_EX_PARAMS_VER, api)>>
      [] fn \in {"nvEncGetEncodePresetConfig", "nvEncGetEncodePresetConfigEx"} ->
            <<PatchStructVersion(NV_ENC_PRESET_CONFIG_VER, api),
              PatchStructVersion(NV_ENC_CONFIG_VER, api)>>
      [] fn = "nvEncInitializeEncoder" ->
            <<PatchStructVersion(NV_ENC_INITIALIZE_PARAMS_VER, api),
              PatchStructVersion(NV_ENC_CONFIG_VER, api)>>
      [] fn = "nvEncReconfigureEncoder" ->
            <<PatchStructVersion(NV_ENC_RECONFIGURE_PARAMS_VER, api),
              PatchStructVersion(NV_ENC_INITIALIZE_PARAMS_VER, api),
              PatchStructVersion(NV_ENC_CONFIG_VER, api)>>
      [] fn = "nvEncGetSequenceParams" ->
            <<PatchStructVersion(NV_ENC_SEQUENCE_PARAM_PAYLOAD_VER, api)>>
      [] OTHER -> << >>

\* The API version in force during the step's call: the one Open negotiates
\* in it (Open stores it before its first device call), else the session's.
VersionInForce ==
    IF lastCall'.op = "Open" /\ lastCall'.out.loaded
    THEN EncodeApiVersion(lastCall'.out.NegotiatedVersion)
    ELSE ApiVersion

\* C28: the structs passed in every invocation of a device entry point carry
\* the compile-time token of their type patched with the session's negotiated
\* API version: those of create-instance and open-session in Open, of the
\* preset queries, of the encoder initialization, of the sequence-parameter
\* extraction, and of Reconfigure, the encode configuration kept from
\* Initialize included; a session Open leaves open holds that version.
C28_TokensArePatched ==
    [][ \E api \in {VersionInForce} :
          /\ \E Tokens \in {{<<fn, PatchedTokens(fn, api)>> :
                                 fn \in {calls'[i].fn : i \in 1..Len(calls')}}} :
                \A i \in 1..Len(calls') : <<calls'[i].fn, calls'[i].ver>> \in Tokens
          /\ \A i \in 1..Len(calls') :
                /\ calls'[i].fn = "nvEncInitializeEncoder" =>
                      /\ calls'[i].arg[1].version = calls'[i].ver[1]
                      /\ calls'[i].arg[2].version = calls'[i].ver[2]
                /\ calls'[i].fn = "nvEncReconfigureEncoder" =>
                      /\ calls'[i].arg.reInitEncodeParams.version = calls'[i].ver[2]
                      /\ calls'[i].arg.encodeConfig.version = calls'[i].ver[3]
          /\ (lastCall'.op = "Open" /\ lastCall'.out.loaded /\ bIsOpen') => ApiVersion' = api
      ]_state

\* Reconfigure was called on a session that negotiated a version below the
\* compile-time one: the encode configuration it re-sent carries the token
\* of that version, not the header's.
C28_Witness ==
    /\ lastCall.op = "Reconfigure"
    /\ ApiVersion # NVENCAPI_VERSION
    /\ Len(calls) = 1
    /\ calls[1].arg.encodeConfig.version = PatchStructVersion(NV_ENC_CONFIG_VER, ApiVersion)
    /\ calls[1].arg.encodeConfig.version # NV_ENC_CONFIG_VER

(***************************************************************************)
(* PatchStructVersion.  Checked under SpecPatch.                           *)
(***************************************************************************)
\* The flag bits (28..31) and the struct-identifier bits (16..27) of a token.
FlagBits(Token) == Token.hi \div 4096
StructIdBits(Token) == Token.hi % 4096

\* C29: PatchStructVersion is idempotent: patching a patched token again with
\* the same API version gives the patched token.
C29_PatchIsIdempotent ==
    lastCall.op = "Repatch" => lastCall.ret = lastCall.args[1]

\* A token was patched twice with a version that has bits among the
\* struct-identifier bits; the first patch changed the token, the second did
\* not change it again.
C29_Witness ==
    /\ lastCall.op = "Repatch"
    /\ lastCall.args[1] # lastCall.out
    /\ StructIdBits(lastCall.args[2]) # 0
    /\ lastCall.ret = lastCall.args[1]

\* C30: PatchStructVersion(token, v) has the flag bits and the
\* struct-identifier bits of token, for every token and version, every
\* v = EncodeApiVersion(major, minor) among them.
C30_AsStated ==
    lastCall.op = "PatchStructVersion" =>
        /\ FlagBits(lastCall.ret) = FlagBits(lastCall.args[1])
        /\ StructIdBits(lastCall.ret) = StructIdBits(lastCall.args[1])

\* C38: for every token and every version v with major in 0..255 and minor
\* in 0..15, the token patched with EncodeApiVersion(v) carries the major of
\* v in bits 0..7 and the minor of v in bits 24..27, whatever version the
\* token embedded before.
C38_AsStated ==
    ( /\ lastCall.op = "PatchStructVersion"
      /\ \E major \in 0..255, minor \in 0..15 :
            lastCall.args[2] = EncodeApiVersion(FNVENCAPIVersion(major, minor)) ) =>
        /\ lastCall.ret.lo % 256 = lastCall.args[2].lo % 256
        /\ (lastCall.ret.hi \div 256) % 16 = (lastCall.args[2].hi \div 256) % 16

(***************************************************************************)
(* The version utilities.  Checked under SpecVersion.                      *)
(***************************************************************************)
\* C31: for every version with major and minor in 0..255, DecodeApiVersion of
\* its EncodeApiVersion is the version.
C31_EncodeDecodeRoundTrip ==
    lastCall.op = "EncodeApiVersion" => lastCall.ret.Decoded = lastCall.args[1]

\* Version 255.255 was encoded as 0xFF0000FF and decoded to 255.255.
C31_Witness ==
    /\ lastCall.op = "EncodeApiVersion"
    /\ lastCall.args[1] = FNVENCAPIVersion(255, 255)
    /\ lastCall.ret.Encoded = U32(65280, 255)
    /\ lastCall.ret.Decoded = FNVENCAPIVersion(255, 255)

\* C32: IsVersionOlder is a strict weak ordering and is the lexicographic
\* order on (major, minor): no version is older than itself, of two versions
\* at most one is older than the other, older-than is transitive and so is
\* being neither older nor newer, and a is older than b exactly when its
\* major is smaller, or the majors are equal and its minor is smaller
\* (whatever the order of the encoded words).
C32_LexicographicOrder ==
    lastCall.op = "IsVersionOlder" =>
        \E Older \in {lastCall.ret}, v \in {lastCall.args} :
            /\ \A i \in 1..3 : ~Older[i][i]
            /\ \A i, j \in 1..3 : Older[i][j] => ~Older[j][i]
            /\ (Older[1][2] /\ Older[2][3]) => Older[1][3]
            /\ (~Older[1][2] /\ ~Older[2][1] /\ ~Older[2][3] /\ ~Older[3][2])
                  => (~Older[1][3] /\ ~Older[3][1])
            /\ \A i, j \in 1..3 :
                  Older[i][j] <=> \/ v[i].Major < v[j].Major
                                  \/ v[i].Major = v[j].Major /\ v[i].Minor < v[j].Minor

\* 1.255, 11.0 and 11.1 were compared: each is older than the next and the
\* first is older than the last, although 1.255 encodes to the largest word.
C32_Witness ==
    /\ lastCall.op = "IsVersionOlder"
    /\ lastCall.args = <<FNVENCAPIVersion(1, 255), FNVENCAPIVersion(NVENCAPI_MAJOR_VERSION, 0),
                         FNVENCAPIVersion(NVENCAPI_MAJOR_VERSION, NVENCAPI_MINOR_VERSION)>>
    /\ lastCall.ret[1][2] /\ lastCall.ret[2][3] /\ lastCall.ret[1][3]
    /\ ~lastCall.ret[3][1]

\* C39 (amended): for every version with major in 1..255 and minor in 1..255,
\* DecodeRuntimeVersion of its EncodeApiVersion is the version; and when a
\* runtime reports such a version and it is not older than the compile-time
\* version, Open negotiates the compile-time version (no downgrade), which is
\* not below the minimum supported version.
C39_ModernReportDecoded ==
    ( /\ lastCall.op = "EncodeApiVersion"
      /\ lastCall.args[1].Major >= 1 /\ lastCall.args[1].Minor >= 1 ) =>
        /\ lastCall.ret.Runtime = lastCall.args[1]
        /\ ~LexOlder(lastCall.args[1], CompileTimeVersion) =>
              /\ lastCall.ret.Negotiated = CompileTimeVersion
              /\ ~LexOlder(lastCall.ret.Negotiated, GetMinimumAPIVersion)

\* C39 as stated: the same for every minor in 0..255.
C39_AsStated ==
    (lastCall.op = "EncodeApiVersion" /\ lastCall.args[1].Major >= 1) =>
        /\ lastCall.ret.Runtime = lastCall.args[1]
        /\ ~LexOlder(lastCall.args[1], CompileTimeVersion) =>
              /\ lastCall.ret.Negotiated = CompileTimeVersion
              /\ ~LexOlder(lastCall.ret.Negotiated, GetMinimumAPIVersion)

\* A runtime one major ahead of the header reported its version in the
\* modern encoding: it was decoded as reported and the compile-time version
\* was kept.
C39_Witness ==
    /\ lastCall.op = "EncodeApiVersion"
    /\ lastCall.args[1] = FNVENCAPIVersion(NVENCAPI_MAJOR_VERSION + 1, NVENCAPI_MINOR_VERSION)
    /\ lastCall.ret.Runtime = lastCall.args[1]
    /\ lastCall.ret.Negotiated = CompileTimeVersion

(***************************************************************************)
(* The identifier registry.  Checked under SpecGuid.                       *)
(***************************************************************************)
\* The key GuidFromComponents looks a tuple up by.
KeyOf(t) == <<t.A, t.D>>

\* A tuple with the key of call j, but not its tuple, was interned before it.
CollidesEarlier(j) ==
    \E i \in 1..(j - 1) : KeyOf(calls[i].arg) = KeyOf(calls[j].arg) /\ calls[i].arg # calls[j].arg

\* C33: two calls of GuidFromComponents with equal tuples return the same
\* entry of the cache, with the same value, whatever was interned before or
\* between them.
C33_EqualTuplesSameIdentifier ==
    \A i, j \in 1..Len(calls) :
        calls[i].arg = calls[j].arg => calls[i].out = calls[j].out

\* A tuple is interned, then a tuple that collides with it and one that does
\* not are, in either order, then the first tuple again.
C33_Witness ==
    /\ Len(calls) = 3
    /\ calls[1].arg = calls[3].arg
    /\ calls[2].arg # calls[1].arg
    /\ KeyOf(calls[2].arg) = KeyOf(calls[1].arg)
    /\ calls[3].out \in Cache

\* C40: the identifier returned for a tuple has the tuple's components when
\* no different tuple with the same first and last components was interned
\* earlier, and two tuples that differ in the first or the last component
\* never yield equal identifiers.
C40_ComponentsUnlessCollision ==
    /\ \A j \in 1..Len(calls) :
          ~CollidesEarlier(j) => calls[j].out.Guid = calls[j].arg
    /\ \A i, j \in 1..Len(calls) :
          KeyOf(calls[i].arg) # KeyOf(calls[j].arg) => calls[i].out.Guid # calls[j].out.Guid

\* C40 as stated: the identifier returned has the tuple's components, also
\* after a colliding tuple, and distinct tuples never yield equal identifiers.
C40_AsStated ==
    /\ \A j \in 1..Len(calls) : calls[j].out.Guid = calls[j].arg
    /\ \A i, j \in 1..Len(calls) :
          calls[i].arg # calls[j].arg => calls[i].out.Guid # calls[j].out.Guid

\* Tuples that share the first component only, and tuples that share the last
\* three, were interned and each came back with its own components.
C40_Witness ==
    /\ Len(calls) = 3
    /\ calls[1].arg.A = calls[2].arg.A /\ calls[1].arg.D # calls[2].arg.D
    /\ calls[1].arg.A # calls[3].arg.A /\ calls[1].arg.D = calls[3].arg.D
    /\ \A j \in 1..3 : calls[j].out.Guid = calls[j].arg

(***************************************************************************)
(* Handle ownership.  Checked under Spec.                                  *)
(***************************************************************************)
RECURSIVE HandlesLive(_, _, _)
\* Whether every invocation of log from index i on that passes an encoder
\* handle passes one of live, where a successful nvEncOpenEncodeSessionEx
\* adds the handle it returns and nvEncDestroyEncoder takes away the handle
\* it is passed.
HandlesLive(log, i, live) ==
    IF i > Len(log)
    THEN TRUE
    ELSE /\ log[i].enc # NullEncoder => log[i].enc \in live
         /\ HandlesLive(log, i + 1,
                IF log[i].fn = "nvEncOpenEncodeSessionEx" /\ log[i].st = NV_ENC_SUCCESS
                THEN live \cup {log[i].out}
                ELSE IF log[i].fn = "nvEncDestroyEncoder"
                THEN live \ {log[i].enc}
                ELSE live)

C35_AsStated ==
    [][ (bIsInitialised /\ lastCall'.op = "Initialize" /\ lastCall'.ret = FALSE) =>
            /\ EncodeConfig' = EncodeConfig
            /\ InitializeParams' = InitializeParams
            /\ NvBufferFormat' = NvBufferFormat
      ]_state

\* C36: in every initialised state the codec and the buffer format of the
\* realized parameters are the codec and the buffer format in use on the
\* device, those of the stored initialise-parameters and the stored device
\* format.
C36_AsStated ==
    bIsInitialised =>
        /\ ToWindowsGuid(CodecGuid(CurrentParameters.Codec)) = InitializeParams.encodeGUID
        /\ ToNVFormat(CurrentParameters.BufferFormat) = NvBufferFormat

\* C37: in every initialised state the IDR period of the stored codec
\* configuration is the stored GOP length.
C37_AsStated ==
    bIsInitialised => EncodeConfig.codecConfig.idrPeriod = EncodeConfig.gopLength

=============================================================================
